---- MODULE Spec2Model ----
(***************************************************************************)
(* Model of the wiperf data-receiver / feedback plane:                     *)
(*   - DataReceiver worker threads (one per interface) that accumulate     *)
(*     received bytes in IfaceInfo.nbytesAcc and apply the pending drain    *)
(*     published in DataReceiver::nbytes_reset_value;                       *)
(*   - the FeedbackSender cycle that snapshots the counters, publishes the  *)
(*     drain, builds the binary report and sends it;                        *)
(*   - the FeedbackReceiver that decodes a report into DatabaseInfo rows.   *)
(* Shared memory is accessed without any lock in the source, so every load  *)
(* and store of a shared field is a step of its own.                        *)
(***************************************************************************)
EXTENDS Integers, Sequences, FiniteSets, TLC

(* ------------------------------ bounds -------------------------------- *)
\* Radix of one byte in the model. The source's bytes have radix 256; the
\* model keeps the byte COUNT of every integer (4 for uint32_t, 8 for
\* uint64_t) and scales the radix so that 8-byte values fit in TLC integers.
ByteBase == 4
\* Feedback cycles the FeedbackSender runs.
MaxCycles == 3
\* Datagrams one Receiver worker receives.
MaxRecv == 2
\* Largest size of one data datagram (bytes).
MaxDatagram == 2
\* Largest time (ms) that passes unobserved before one reading of the clock.
MaxLag == 1
\* Largest counter value at the start of the feedback path.
MaxAcc == 1
\* Feedback cycles and datagrams per worker while a whole process is followed
\* from main() to its exit.
ProcCycles == 1
ProcRecv == 1
\* Feedback cycles while the rows of the sink are followed.
SinkCycles == 2

(* --------------------------- program constants ------------------------ *)
sizePerRat == 40
UNINITIALIZED_FD == -1
Seed == 123123123
DecisionPeriod == 333
FEEDBACK_RCV_BUF_LEN == 512

\* FeedbackSender::feedbackInterval values the configuration supplies here
\* (milliseconds; FEEDBACK_INTERVAL_DEF is 100).
FeedbackIntervals == {3}

\* The interface-name lists of the `ifaces' key of section data-receiver
\* (data-sender on the FeedbackReceiver side lists the same names in the
\* same order).
IfnameLists == { <<"lo", "802.11ac">> }

\* The clock reading (ms) at the start of the FeedbackSender.
FirstClock == 6
\* Descriptors available to the process and signals delivered to it.
FirstFd == 4
MaxFd == 9
MaxSignals == 2
\* The wall clock of the dsender process advances in steps of TickMillis.
TickMillis == 200
MaxClock == 400

(* ------------------------ fixed-width integers ------------------------ *)
RECURSIVE Pow(_, _)
Pow(b, e) == IF e = 0 THEN 1 ELSE b * Pow(b, e - 1)

Uint32Mod == Pow(ByteBase, 4)
Uint64Mod == Pow(ByteBase, 8)

\* static_cast<uint32_t>(v) / implicit conversion to uint32_t
ToUint32(v) == v % Uint32Mod
\* arithmetic on uint64_t
ToUint64(v) == v % Uint64Mod

\* The k bytes of v, most significant first.
RECURSIVE BEBytes(_, _)
BEBytes(v, k) == IF k = 0 THEN << >>
                 ELSE Append(BEBytes(v \div ByteBase, k - 1), v % ByteBase)

RECURSIVE BEValue(_)
BEValue(bs) == IF bs = << >> THEN 0
               ELSE BEValue(SubSeq(bs, 1, Len(bs) - 1)) * ByteBase + bs[Len(bs)]

Reverse(s) == [k \in 1..Len(s) |-> s[Len(s) + 1 - k]]

\* std::memcpy(dst, &v, k): the object representation of the k-byte integer
\* v on a host that is little endian (le) or big endian.
MemBytes(le, v, k) == IF le THEN Reverse(BEBytes(v, k)) ELSE BEBytes(v, k)
\* std::memcpy(&v, src, k): the integer whose object representation is bs.
MemValue(le, bs) == IF le THEN BEValue(Reverse(bs)) ELSE BEValue(bs)

\* Byte swap of a 4-byte integer.
Swap32(v) == BEValue(Reverse(BEBytes(v, 4)))

htonl(le, v) == IF le THEN Swap32(v) ELSE v
ntohl(le, v) == IF le THEN Swap32(v) ELSE v

\* htonll with the two converted halves left in place (not exchanged).
htonllHalvesInPlace(le, value) ==
    IF le
    THEN LET high_part == htonl(le, ToUint32(value \div Uint32Mod))
             low_part  == htonl(le, ToUint32(value % Uint32Mod))
         IN  high_part * Uint32Mod + low_part
    ELSE value

\* WiperfUtility::htonll: on a little-endian host the two 32-bit halves are
\* converted with htonl and exchanged.
htonll(le, value) ==
    IF le
    THEN LET high_part == htonl(le, ToUint32(value \div Uint32Mod))
             low_part  == htonl(le, ToUint32(value % Uint32Mod))
         IN  low_part * Uint32Mod + high_part
    ELSE value

\* WiperfUtility::ntohll
ntohll(le, value) ==
    IF le
    THEN LET high_part == ntohl(le, ToUint32(value \div Uint32Mod))
             low_part  == ntohl(le, ToUint32(value % Uint32Mod))
         IN  low_part * Uint32Mod + high_part
    ELSE value

(* ------------------------------ helpers ------------------------------- *)
Range(s) == {s[k] : k \in 1..Len(s)}

\* std::map<std::string, ...> iterates its keys in lexicographic order.
NameRank(n) == IF n = "" THEN 0 ELSE IF n = "802.11ac" THEN 1 ELSE 2

RECURSIVE MapOrder(_)
MapOrder(S) == IF S = {} THEN << >>
               ELSE LET m == CHOOSE x \in S : \A y \in S : NameRank(x) <= NameRank(y)
                    IN  <<m>> \o MapOrder(S \ {m})

Zeros(k) == [j \in 1..k |-> 0]

\* buffer[off .. off+len-1] := bytes   (offsets count from 0 as in the source)
Memcpy(buffer, off, bytes) ==
    [k \in 1..Len(buffer) |->
        IF k > off /\ k <= off + Len(bytes) THEN bytes[k - off] ELSE buffer[k]]

\* buffer[off .. off+len-1]; bytes past the end of the buffer read as 0
Slice(buffer, off, len) ==
    [k \in 1..len |-> IF off + k <= Len(buffer) THEN buffer[off + k] ELSE 0]

VARIABLES
    \* configuration (fixed after construction / readConfig)
    dataReceiverIfnames,  \* FeedbackSender::dataReceiverIfnames
    dataSenderIfnames,    \* FeedbackReceiver::dataSenderIfnames
    feedbackInterval,     \* FeedbackSender/FeedbackReceiver::feedbackInterval
    txLittleEndian,       \* byte order of the host running the FeedbackSender
    rxLittleEndian,       \* byte order of the host running the FeedbackReceiver
    cfile,                \* the configuration file: ConfigFile::content_
    loaded,               \* what readConfig left in each role object of main()
    gpsInfo,              \* the GpsInfo shared-memory segment mygpsd writes
    \* DataReceiver
    nbytesAcc,            \* ifaceMap[name].nbytesAcc (uint64_t)
    nbytes_reset_value,   \* DataReceiver::nbytes_reset_value[name] (uint32_t)
    wpc,                  \* position of each worker thread
    wreg,                 \* value of nbytes_reset_value the worker loaded at its test
    nrecv,                \* datagrams received so far by each worker
    \* FeedbackSender::commThread
    fpc,                  \* position of the FeedbackSender thread
    fcur,                 \* position of the running map iteration
    now,                  \* the wall clock as last read (ms)
    timestamp,            \* local `timestamp'
    sleepingInterval,     \* local `sleepingInterval'
    nbytesMap,            \* local `nbytesMap'
    tInfo, tm1Info, tm2Info,
    reports,              \* every report built so far, in order
    \* feedback channel and FeedbackReceiver
    net,                  \* datagrams queued at the FeedbackReceiver's socket
    decoded,              \* reports the FeedbackReceiver decoded
    batch,                \* the last report decoded and the vector given to createAll
    handed,               \* DatabaseInfo rows handed to DatabaseManager::createAll
    history,              \* the rows of table `history' of the database
    \* history of the byte counters
    totalRecv,            \* sum of the sizes of the datagrams received
    totalSub,             \* sum of the amounts the worker subtracted
    totalReported,        \* sum of the snapshots reported in feedback reports
    snapRecv,             \* totalRecv when the snapshot in nbytesMap was taken
    pendRecv,             \* snapRecv of the snapshot nbytes_reset_value holds
    wregRecv,             \* pendRecv that goes with wreg
    workload,             \* what the environment offers: feedback cycles run,
                          \* datagrams sent to each worker
    \* the process: role objects, descriptors, threads, signal handler
    array,                \* dreceiver.cc:19 / dsender.cc:21: the two role objects
    decisionLevel,        \* DataSender::decisionLevel
    endProgram_,          \* DataTransfer::endProgram_ of each object
    wakefd_,              \* DataTransfer::wakefd_ of each object
    stopFlag,             \* DataReceiver::stopFlag / DataSender::stopFlag
    sockfd,               \* ifaceMap[name].sockfd of each object
    fdTable,              \* the descriptor table of the process
    eventCount,           \* the counter of each eventfd
    closes,               \* every close() call made by closeIfaceSocks, in order
    mainpc,               \* position of main()
    runpc,                \* position of each DataTransfer::run()
    cpc,                  \* position of each commThread()
    spc,                  \* position of each DataSender worker
    hpc,                  \* stopThread() calls made by the running sigHandler
    signals,              \* signals handled so far
    sigInstalled,         \* signal(SIGINT/SIGTERM/SIGHUP, sigHandler) was called
    exitCode,             \* exit status of the process, NoExit while it runs
    \* DataSender policies
    decision,             \* DataSender::decision
    decisionExpiresAt,    \* DataSender::decisionExpiresAt
    sNow,                 \* sendOneInterface: local `now'
    iinfo,                \* sendOneInterface: the entry `iinfo' refers to
    picks,                \* results of pickRandomIface, in order
    replay,               \* picks of a second run on the same table
    pickedAt,             \* wall clock at the last pick
    sends                 \* sendto calls: worker/entry, descriptor, result, time

cfgVars  == <<dataReceiverIfnames, dataSenderIfnames, feedbackInterval,
              txLittleEndian, rxLittleEndian, workload, cfile, loaded,
              gpsInfo>>
rcvVars  == <<nbytesAcc, wpc, wreg, nrecv, totalRecv, totalSub, wregRecv>>
fsVars   == <<fpc, fcur, now, timestamp, sleepingInterval, nbytesMap,
              tInfo, tm1Info, tm2Info, reports, totalReported, snapRecv>>
frVars   == <<net, decoded, batch, handed, history>>
procVars == <<array, decisionLevel, endProgram_, wakefd_, stopFlag, sockfd,
              fdTable, eventCount, closes, mainpc, runpc, cpc, spc, hpc,
              signals, sigInstalled, exitCode>>
sndVars  == <<decision, decisionExpiresAt, sNow, iinfo, picks, replay,
              pickedAt, sends>>
lifeVars == <<procVars, sndVars>>
vars     == <<cfgVars, lifeVars, rcvVars, fsVars, frVars, nbytes_reset_value,
              pendRecv>>

\* The interfaces the DataReceiver tracks: the keys of its ifaceMap.
Ifaces == DOMAIN nbytesAcc

(* ------------------------- configuration file -------------------------- *)
\* Defaults and limits of the readers.
PORT_CLI_DEF == 44443
PORT_SRV_DEF == 44444
PORT_FEED_CLI_DEF == 44445
PORT_FEED_SRV_DEF == 44446
FEEDBACK_INTERVAL_DEF == 100
PortMin == 1024
PortMax == 49151
NLOG_LEVELS == 5
LOG_LEVEL_DEF == 1
INT_MAX == 2147483647
GPS_SHM_PATH_DEF == "/wiperf-gpsinfo"
IFACES_STR_DEF == << [iname |-> "lo", iaddr |-> "127.0.0.1"] >>

\* The characters of the value texts the model uses.
Chars ==
    (""            :> << >>) @@
    ("0"           :> <<"0">>) @@
    ("1"           :> <<"1">>) @@
    ("3"           :> <<"3">>) @@
    ("5"           :> <<"5">>) @@
    ("80"          :> <<"8", "0">>) @@
    ("-1"          :> <<"-", "1">>) @@
    ("1023"        :> <<"1", "0", "2", "3">>) @@
    ("1024"        :> <<"1", "0", "2", "4">>) @@
    (" 5201"       :> <<" ", "5", "2", "0", "1">>) @@
    ("49151"       :> <<"4", "9", "1", "5", "1">>) @@
    ("49152"       :> <<"4", "9", "1", "5", "2">>) @@
    ("2147483647"  :> <<"2", "1", "4", "7", "4", "8", "3", "6", "4", "7">>) @@
    ("2147483648"  :> <<"2", "1", "4", "7", "4", "8", "3", "6", "4", "8">>) @@
    ("-2147483648" :> <<"-", "2", "1", "4", "7", "4", "8", "3", "6", "4", "8">>) @@
    ("abc"         :> <<"a", "b", "c">>) @@
    ("12ab"        :> <<"1", "2", "a", "b">>)

DigitOf ==
    ("0" :> 0) @@ ("1" :> 1) @@ ("2" :> 2) @@ ("3" :> 3) @@ ("4" :> 4) @@
    ("5" :> 5) @@ ("6" :> 6) @@ ("7" :> 7) @@ ("8" :> 8) @@ ("9" :> 9)

\* The result of a call: the exception it threw, if any, and its value.
Returned(v) == [ex |-> "none", val |-> v]
Thrown(e)   == [ex |-> e, val |-> 0]

\* The digits of std::stoi, accumulated in an int: strtol stops at the first
\* character that is no digit, no digit at all is std::invalid_argument and
\* a value that does not fit an int is std::out_of_range.
RECURSIVE StoiDigits(_, _, _, _)
StoiDigits(t, acc, neg, any) ==
    IF t = << >> \/ t[1] \notin DOMAIN DigitOf
    THEN IF any THEN Returned(acc) ELSE Thrown("std::invalid_argument")
    ELSE LET d == DigitOf[t[1]]
         IN  IF neg
             THEN IF acc < ((-INT_MAX) - 1 + d + 9) \div 10
                  THEN Thrown("std::out_of_range")
                  ELSE StoiDigits(Tail(t), acc * 10 - d, neg, TRUE)
             ELSE IF acc > (INT_MAX - d) \div 10
                  THEN Thrown("std::out_of_range")
                  ELSE StoiDigits(Tail(t), acc * 10 + d, neg, TRUE)

RECURSIVE SkipSpace(_)
SkipSpace(t) == IF t # << >> /\ t[1] = " " THEN SkipSpace(Tail(t)) ELSE t

\* std::stoi: leading white space, an optional sign, the digits.
stoi(text) ==
    LET t == SkipSpace(Chars[text])
    IN  IF t # << >> /\ t[1] \in {"-", "+"}
        THEN StoiDigits(Tail(t), 0, t[1] = "-", FALSE)
        ELSE StoiDigits(t, 0, FALSE, FALSE)

\* ConfigFile::Value(section, entry): the text of the entry, or
\* std::runtime_error when the file has no such entry.
Value(f, section, entry) ==
    IF <<section, entry>> \in DOMAIN f.content
    THEN Returned(f.content[<<section, entry>>])
    ELSE Thrown("std::runtime_error")

\* The same for the entry "ifaces", whose text is kept as the list of its
\* comma-separated entries, each the interface name and the address token
\* ("" when the entry has none).
IfacesValue(f, section) ==
    IF section \in DOMAIN f.ifaces
    THEN Returned(f.ifaces[section])
    ELSE Thrown("std::runtime_error")

\* Every handler of the readers is `catch (char const* str)'.
Caught(e) == e = "char const*"

\* The dotted parts of the address texts the model uses.
Octets ==
    ("127.0.0.1"  :> <<127, 0, 0, 1>>) @@
    ("10.0.0.1"   :> <<10, 0, 0, 1>>) @@
    ("10.0.0.2"   :> <<10, 0, 0, 2>>) @@
    ("10.0.0.256" :> <<10, 0, 0, 256>>) @@
    ("10.0.1"     :> <<10, 0, 1>>)

\* inet_pton(AF_INET, ...) = 1: four parts, each at most 255.
inet_pton(addr) ==
    /\ Len(Octets[addr]) = 4
    /\ \A k \in 1..4 : Octets[addr][k] <= 255

\* What a role object holds while readConfig runs: the exception that ended
\* it ("exit" for LOG_FATAL_EXIT), the reader it ended in, the readers that
\* returned, and the members set so far.
Unread ==
    [ex |-> "none", at |-> << >>, done |-> {}, logLevel |-> LOG_LEVEL_DEF,
     port |-> << >>, ifaceMap |-> << >>, dataIfaces |-> << >>,
     ifnames |-> << >>, gpsShmPath |-> GPS_SHM_PATH_DEF, decisionLevel |-> 0,
     feedbackInterval |-> FEEDBACK_INTERVAL_DEF]

Fail(s, e, key) == [s EXCEPT !.ex = e, !.at = key]
Done(s, key)    == [s EXCEPT !.done = @ \cup {key}]

\* The body of a `try { x = std::stoi(cfile.Value(section, entry)); ... }
\* catch (char const*)': the exception leaves the block unless the handler
\* catches it, and then the default stays.
TryStoi(f, section, entry) ==
    LET v == Value(f, section, entry)
    IN  IF v.ex # "none" THEN v ELSE stoi(v.val)

\* WiperfUtility::readAndSetLogLevel.
readAndSetLogLevel(f, section, s) ==
    IF s.ex # "none" THEN s
    ELSE LET key == <<section, "log-level">>
             n   == TryStoi(f, section, "log-level")
         IN  IF n.ex # "none"
             THEN IF Caught(n.ex) THEN Done(s, key) ELSE Fail(s, n.ex, key)
             ELSE Done([s EXCEPT !.logLevel =
                           IF n.val >= 0 /\ n.val < NLOG_LEVELS THEN n.val ELSE @],
                       key)

\* WiperfUtility::readPort, its result stored as the port of `section'.
readPort(f, section, defPort, s) ==
    IF s.ex # "none" THEN s
    ELSE LET key == <<section, "port">>
             n   == TryStoi(f, section, "port")
             set(p) == Done([s EXCEPT !.port = (section :> p) @@ @], key)
         IN  IF n.ex # "none"
             THEN IF Caught(n.ex) THEN set(defPort) ELSE Fail(s, n.ex, key)
             ELSE IF n.val >= PortMin /\ n.val <= PortMax
                  THEN set(n.val)
                  ELSE set(defPort)

\* The entry loop of readIfaces: an entry with a valid address inserts the
\* name when it is new and sets its server or client address.
RECURSIVE AddEntries(_, _, _)
AddEntries(entries, addrType, map) ==
    IF entries = << >> THEN map
    ELSE LET e   == Head(entries)
             old == IF e.iname \in DOMAIN map THEN map[e.iname]
                    ELSE [addrSrv |-> "", addrCli |-> ""]
             new == IF addrType = "SERVER" THEN [old EXCEPT !.addrSrv = e.iaddr]
                    ELSE [old EXCEPT !.addrCli = e.iaddr]
         IN  IF e.iaddr # "" /\ inet_pton(e.iaddr)
             THEN AddEntries(Tail(entries), addrType,
                             (e.iname :> new) @@ map)
             ELSE AddEntries(Tail(entries), addrType, map)

\* WiperfUtility::readIfaces into the table `field' of the object.
readIfaces(f, section, addrType, field, s) ==
    IF s.ex # "none" THEN s
    ELSE LET key == <<section, "ifaces">>
             v   == IfacesValue(f, section)
             str == IF v.ex = "none" THEN v.val ELSE IFACES_STR_DEF
             map == AddEntries(str, addrType, s[field])
         IN  IF v.ex # "none" /\ ~Caught(v.ex) THEN Fail(s, v.ex, key)
             ELSE IF DOMAIN map = {} THEN Fail(s, "exit", key)
             ELSE Done([s EXCEPT ![field] = map], key)

\* WiperfUtility::readIfnames: the names of the entries, in file order.
readIfnames(f, section, s) ==
    IF s.ex # "none" THEN s
    ELSE LET key == <<section, "ifnames">>
             v   == IfacesValue(f, section)
             str == IF v.ex = "none" THEN v.val ELSE IFACES_STR_DEF
             ifnames == [k \in 1..Len(str) |-> str[k].iname]
         IN  IF v.ex # "none" /\ ~Caught(v.ex) THEN Fail(s, v.ex, key)
             ELSE IF ifnames = << >> THEN Fail(s, "exit", key)
             ELSE Done([s EXCEPT !.ifnames = ifnames], key)

\* WiperfUtility::readGpsShmPath.
readGpsShmPath(f, s) ==
    IF s.ex # "none" THEN s
    ELSE LET key == <<"gpsinfo", "shm-path">>
             v   == Value(f, "gpsinfo", "shm-path")
         IN  IF v.ex # "none"
             THEN IF Caught(v.ex) THEN Done(s, key) ELSE Fail(s, v.ex, key)
             ELSE Done([s EXCEPT !.gpsShmPath = v.val], key)

\* this->decisionLevel = std::stoi(cfile.Value(...)), outside any try block.
readDecisionLevel(f, s) ==
    IF s.ex # "none" THEN s
    ELSE LET key == <<"data-sender", "decision-level">>
             n   == TryStoi(f, "data-sender", "decision-level")
         IN  IF n.ex # "none" THEN Fail(s, n.ex, key)
             ELSE Done([s EXCEPT !.decisionLevel = n.val], key)

\* The try block around the feedback interval of the two feedback roles.
readFeedbackInterval(f, section, s) ==
    IF s.ex # "none" THEN s
    ELSE LET key == <<section, "feedback-interval">>
             n   == TryStoi(f, section, "feedback-interval")
         IN  IF n.ex # "none"
             THEN IF Caught(n.ex) THEN Done(s, key) ELSE Fail(s, n.ex, key)
             ELSE Done([s EXCEPT !.feedbackInterval = n.val], key)

\* A readConfig that keeps the entries with one address only.
keepAllIfaces(s) == s

\* The closing loop of every readConfig: the entries without both addresses
\* are erased, and an empty table is fatal.
erasePartial(s) ==
    IF s.ex # "none" THEN s
    ELSE LET paired == { n \in DOMAIN s.ifaceMap :
                           s.ifaceMap[n].addrSrv # "" /\ s.ifaceMap[n].addrCli # "" }
             map    == [n \in paired |-> s.ifaceMap[n]]
         IN  IF DOMAIN map = {} THEN Fail(s, "exit", <<"ifaces">>)
             ELSE Done([s EXCEPT !.ifaceMap = map], <<"ifaces">>)

DataSenderReadConfig(f) ==
    LET s1 == readAndSetLogLevel(f, "data-sender", Unread)
        s2 == readPort(f, "data-receiver", PORT_SRV_DEF, s1)
        s3 == readIfaces(f, "data-receiver", "SERVER", "ifaceMap", s2)
        s4 == readPort(f, "data-sender", PORT_CLI_DEF, s3)
        s5 == readIfaces(f, "data-sender", "CLIENT", "ifaceMap", s4)
        s6 == readGpsShmPath(f, s5)
        s7 == readDecisionLevel(f, s6)
    IN  erasePartial(s7)

DataReceiverReadConfig(f) ==
    LET s1 == readAndSetLogLevel(f, "data-receiver", Unread)
        s2 == readPort(f, "data-receiver", PORT_SRV_DEF, s1)
        s3 == readIfaces(f, "data-receiver", "SERVER", "ifaceMap", s2)
        s4 == readPort(f, "data-sender", PORT_CLI_DEF, s3)
        s5 == readIfaces(f, "data-sender", "CLIENT", "ifaceMap", s4)
    IN  erasePartial(s5)

FeedbackSenderReadConfig(f) ==
    LET s1 == readGpsShmPath(f, Unread)
        s2 == readPort(f, "feedback-receiver", PORT_FEED_SRV_DEF, s1)
        s3 == readIfaces(f, "feedback-receiver", "SERVER", "ifaceMap", s2)
        s4 == readPort(f, "feedback-sender", PORT_FEED_CLI_DEF, s3)
        s5 == readIfaces(f, "feedback-sender", "CLIENT", "ifaceMap", s4)
        s6 == readIfaces(f, "data-receiver", "SERVER", "dataIfaces", s5)
        s7 == readIfaces(f, "data-sender", "CLIENT", "dataIfaces", s6)
        s8 == readIfnames(f, "data-receiver", s7)
        s9 == readFeedbackInterval(f, "feedback-sender", s8)
    IN  erasePartial(s9)

FeedbackReceiverReadConfig(f) ==
    LET s1 == readAndSetLogLevel(f, "feedback-receiver", Unread)
        s2 == readPort(f, "feedback-receiver", PORT_FEED_SRV_DEF, s1)
        s3 == readIfaces(f, "feedback-receiver", "SERVER", "ifaceMap", s2)
        s4 == readPort(f, "feedback-sender", PORT_FEED_CLI_DEF, s3)
        s5 == readIfaces(f, "feedback-sender", "CLIENT", "ifaceMap", s4)
        s6 == readIfaces(f, "data-sender", "CLIENT", "dataIfaces", s5)
        s7 == readIfaces(f, "data-receiver", "SERVER", "dataIfaces", s6)
        s8 == readIfnames(f, "data-sender", s7)
        s9 == readGpsShmPath(f, s8)
        s10 == readFeedbackInterval(f, "feedback-receiver", s9)
    IN  erasePartial(s10)

readConfig(o, f) ==
    IF o = "DataSender" THEN DataSenderReadConfig(f)
    ELSE IF o = "DataReceiver" THEN DataReceiverReadConfig(f)
    ELSE IF o = "FeedbackSender" THEN FeedbackSenderReadConfig(f)
    ELSE FeedbackReceiverReadConfig(f)

\* A complete configuration file for the interfaces `names'.
FileOf(names, level) ==
    LET AddrOf == ("lo" :> "127.0.0.1") @@ ("802.11ac" :> "10.0.0.1")
        IfacesOf(l) == [k \in 1..Len(l) |-> [iname |-> l[k], iaddr |-> AddrOf[l[k]]]]
    IN
    [content |->
        (<<"data-receiver", "port">>                  :> "1024") @@
        (<<"data-sender", "port">>                    :> "49151") @@
        (<<"feedback-receiver", "port">>              :> " 5201") @@
        (<<"feedback-sender", "port">>                :> "1024") @@
        (<<"data-receiver", "log-level">>             :> "3") @@
        (<<"data-sender", "log-level">>               :> "3") @@
        (<<"feedback-receiver", "log-level">>         :> "3") @@
        (<<"data-sender", "decision-level">>          :> (IF level = 0 THEN "0" ELSE "1")) @@
        (<<"feedback-sender", "feedback-interval">>   :> "5") @@
        (<<"feedback-receiver", "feedback-interval">> :> "5") @@
        (<<"gpsinfo", "shm-path">>                    :> "/gps"),
     ifaces |->
        ("data-receiver"     :> IfacesOf(names)) @@
        ("data-sender"       :> IfacesOf(names)) @@
        ("feedback-receiver" :> IfacesOf(<<"lo">>)) @@
        ("feedback-sender"   :> IfacesOf(<<"lo">>))]

\* main() has read the configuration of both of its role objects.
ConfigRead(names, proc, level) ==
    /\ cfile = FileOf(names, level)
    /\ loaded = [o \in Range(proc) |-> readConfig(o, FileOf(names, level))]

(* ------------------- role objects and descriptor table ---------------- *)
\* The four classes derived from DataTransfer.
Objects == {"DataReceiver", "FeedbackSender", "DataSender", "FeedbackReceiver"}

\* The classes that add an atomic stopFlag and per-interface workers.
DataObjects == {"DataReceiver", "DataSender"}

\* The two processes: which objects main() puts in array[0] and array[1].
Processes == { <<"DataReceiver", "FeedbackSender">>,
               <<"DataSender", "FeedbackReceiver">> }

\* The interface of the feedback channel (section feedback-receiver/-sender).
FeedbackIfaces == {"lo"}

\* Descriptors 0..2 are the standard streams and 3 is the log file opened by
\* LOG_INIT; socket() and eventfd() return the lowest free descriptor.
Fds == FirstFd .. MaxFd

FreeFd == [kind |-> "free", owner |-> "none"]

LowestFree(t) ==
    CHOOSE f \in Fds : t[f].kind = "free" /\ \A g \in Fds : g < f => t[g].kind # "free"

\* The socket()/bind() loop of a commThread: one socket per entry of the
\* object's ifaceMap, in map order, its descriptor saved in the entry.
RECURSIVE OpenSockets(_, _, _, _)
OpenSockets(t, socks, o, order) ==
    IF order = << >> THEN [fdTable |-> t, sockfd |-> socks]
    ELSE LET fd == LowestFree(t)
         IN  OpenSockets([t EXCEPT ![fd] = [kind |-> "socket", owner |-> o]],
                         [socks EXCEPT ![Head(order)] = fd], o, Tail(order))

\* What close(fd) finds at the descriptor.
Hit(t, fd) == IF fd \in Fds THEN t[fd] ELSE [kind |-> "std", owner |-> "none"]

\* DataTransfer::closeIfaceSocks (DataTransfer.cc:88-96): close() on every
\* entry whose sockfd is not UNINITIALIZED_FD; the entry keeps its value.
RECURSIVE CloseSockets(_, _, _, _, _)
CloseSockets(t, log, socks, o, order) ==
    IF order = << >> THEN [fdTable |-> t, closes |-> log]
    ELSE LET name == Head(order)
             fd   == socks[name]
         IN  IF fd = UNINITIALIZED_FD
             THEN CloseSockets(t, log, socks, o, Tail(order))
             ELSE CloseSockets(IF fd \in Fds THEN [t EXCEPT ![fd] = FreeFd] ELSE t,
                               Append(log, [by |-> o, name |-> name, fd |-> fd,
                                            hit |-> Hit(t, fd)]),
                               socks, o, Tail(order))

closeIfaceSocks(o) ==
    LET r == CloseSockets(fdTable, closes, sockfd[o], o, MapOrder(DOMAIN sockfd[o]))
    IN  /\ fdTable' = r.fdTable
        /\ closes' = r.closes

\* The process while it runs.
Running == exitCode = << >>

\* The interface table each object gets from readConfig.
IfaceTable(o, names) == IF o \in DataObjects THEN Range(names) ELSE FeedbackIfaces

\* The flags, logs and DataSender fields after construction and readConfig.
Constructed(names) ==
    /\ endProgram_ = [o \in Objects |-> FALSE]
    /\ stopFlag = [o \in DataObjects |-> FALSE]
    /\ eventCount = [f \in Fds |-> 0]
    /\ closes = << >>
    /\ spc = [n \in Range(names) |-> "idle"]
    /\ hpc = 0
    /\ signals = 0
    /\ exitCode = << >>
    /\ decision = ""
    /\ decisionExpiresAt = 0
    /\ sNow = 0
    /\ iinfo = ""
    /\ picks = << >>
    /\ replay = << >>
    /\ pickedAt = 0
    /\ sends = {}

\* readIfaces: every sockfd is UNINITIALIZED_FD (WiperfUtility.cc:110).
NoSockets(names) ==
    [o \in Objects |-> [n \in IfaceTable(o, names) |-> UNINITIALIZED_FD]]

\* The dreceiver process once both run() calls have created their eventfd,
\* both commThreads have opened their sockets and the workers are launched.
Started(names) ==
    LET DR == "DataReceiver"
        FS == "FeedbackSender"
        t0 == [f \in Fds |-> FreeFd]
        w1 == LowestFree(t0)
        t1 == [t0 EXCEPT ![w1] = [kind |-> "eventfd", owner |-> DR]]
        w2 == LowestFree(t1)
        t2 == [t1 EXCEPT ![w2] = [kind |-> "eventfd", owner |-> FS]]
        r1 == OpenSockets(t2, NoSockets(names)[DR], DR, MapOrder(Range(names)))
        r2 == OpenSockets(r1.fdTable, NoSockets(names)[FS], FS, MapOrder(FeedbackIfaces))
    IN  /\ array = <<DR, FS>>
        /\ decisionLevel = 0
        /\ wakefd_ = [o \in Objects |-> IF o = DR THEN w1 ELSE IF o = FS THEN w2 ELSE 0]
        /\ sockfd = [NoSockets(names) EXCEPT ![DR] = r1.sockfd, ![FS] = r2.sockfd]
        /\ fdTable = r2.fdTable
        /\ mainpc = "join"
        /\ runpc = [o \in Objects |-> IF o \in {DR, FS} THEN "join" ELSE "idle"]
        /\ cpc = [o \in Objects |-> IF o = DR THEN "join"
                                    ELSE IF o = FS THEN "loop" ELSE "idle"]
        /\ sigInstalled = TRUE


(* --------------------- DataReceiver worker threads -------------------- *)
\* DataReceiver.cc:156-170: loop test, select(), nbytes_reset_value.find()
\* and the test `itr_nbytes->second > 0', which loads the pending value.
WorkerCheck(i) ==
    /\ wpc[i] = "check"
    /\ cpc["DataReceiver"] = "join"
    /\ ~stopFlag["DataReceiver"]
    /\ IF nbytes_reset_value[i] > 0
       THEN /\ wpc' = [wpc EXCEPT ![i] = "sub"]
            /\ wreg' = [wreg EXCEPT ![i] = nbytes_reset_value[i]]
            /\ wregRecv' = [wregRecv EXCEPT ![i] = pendRecv[i]]
       ELSE /\ wpc' = [wpc EXCEPT ![i] = "recv"]
            /\ UNCHANGED <<wreg, wregRecv>>
    /\ UNCHANGED <<cfgVars, lifeVars, fsVars, frVars, nbytes_reset_value, pendRecv,
                   nbytesAcc, nrecv, totalRecv, totalSub>>

\* The amount line 171 subtracts: the value loaded by the test (kept in a
\* register) or, when the build loads it again, the value stored now.
DrainAmount(i, reload) == IF reload THEN nbytes_reset_value[i] ELSE wreg[i]

\* DataReceiver.cc:171: iinfo.nbytesAcc = iinfo.nbytesAcc - itr_nbytes->second
WorkerSub(i) ==
    /\ wpc[i] = "sub"
    /\ \E reload \in BOOLEAN :
          /\ nbytesAcc' = [nbytesAcc EXCEPT
                             ![i] = ToUint64(@ + Uint64Mod - DrainAmount(i, reload))]
          /\ totalSub' = [totalSub EXCEPT ![i] = @ + DrainAmount(i, reload)]
          /\ wregRecv' = [wregRecv EXCEPT
                             ![i] = IF reload THEN pendRecv[i] ELSE @]
    /\ wpc' = [wpc EXCEPT ![i] = "zero"]
    /\ UNCHANGED <<cfgVars, lifeVars, fsVars, frVars, nbytes_reset_value, pendRecv,
                   wreg, nrecv, totalRecv>>

\* A worker that clears the pending drain of every interface.
WorkerZeroAll(i) ==
    /\ wpc[i] = "zero"
    /\ nbytes_reset_value' = [n \in DOMAIN nbytes_reset_value |-> 0]
    /\ wpc' = [wpc EXCEPT ![i] = "recv"]
    /\ wreg' = [wreg EXCEPT ![i] = 0]
    /\ wregRecv' = [wregRecv EXCEPT ![i] = 0]
    /\ UNCHANGED <<cfgVars, lifeVars, fsVars, frVars, pendRecv,
                   nbytesAcc, nrecv, totalRecv, totalSub>>

\* DataReceiver.cc:172: itr_nbytes->second = 0
WorkerZero(i) ==
    /\ wpc[i] = "zero"
    /\ nbytes_reset_value' = [nbytes_reset_value EXCEPT ![i] = 0]
    /\ wpc' = [wpc EXCEPT ![i] = "recv"]
    /\ wreg' = [wreg EXCEPT ![i] = 0]
    /\ wregRecv' = [wregRecv EXCEPT ![i] = 0]
    /\ UNCHANGED <<cfgVars, lifeVars, fsVars, frVars, pendRecv,
                   nbytesAcc, nrecv, totalRecv, totalSub>>

\* DataReceiver.cc:175-177: recv() returned nbytes > 0
WorkerRecv(i) ==
    /\ wpc[i] = "recv"
    /\ ~stopFlag["DataReceiver"]
    /\ nrecv[i] < workload.recv
    /\ \E nbytes \in 1..MaxDatagram :
          /\ nbytesAcc' = [nbytesAcc EXCEPT ![i] = ToUint64(@ + nbytes)]
          /\ totalRecv' = [totalRecv EXCEPT ![i] = @ + nbytes]
    /\ nrecv' = [nrecv EXCEPT ![i] = @ + 1]
    /\ UNCHANGED <<cfgVars, lifeVars, fsVars, frVars, nbytes_reset_value, pendRecv,
                   wpc, wreg, wregRecv, totalSub>>

\* DataReceiver.cc:175-179: the socket is not readable, or recv() returned
\* no datagram: back to the loop test.
WorkerRecvDone(i) ==
    /\ wpc[i] = "recv"
    /\ wpc' = [wpc EXCEPT ![i] = "check"]
    /\ UNCHANGED <<cfgVars, lifeVars, fsVars, frVars, nbytes_reset_value, pendRecv,
                   nbytesAcc, wreg, nrecv, totalRecv, totalSub, wregRecv>>

\* DataReceiver.cc:156,182: the loop test finds stopFlag set; the worker ends.
WorkerExit(i) ==
    /\ wpc[i] = "check"
    /\ cpc["DataReceiver"] = "join"
    /\ stopFlag["DataReceiver"]
    /\ wpc' = [wpc EXCEPT ![i] = "done"]
    /\ UNCHANGED <<cfgVars, lifeVars, fsVars, frVars, nbytes_reset_value, pendRecv,
                   nbytesAcc, wreg, nrecv, totalRecv, totalSub, wregRecv>>

(* ----------------------- FeedbackSender::commThread ------------------- *)
\* One reading of std::chrono::system_clock: the clock does not run backwards.
ClockReads == now .. now + MaxLag

\* FeedbackSender.cc:151 and :266
SleepingInterval(t) == feedbackInterval - (t % feedbackInterval)

\* A sleep_for that returns at once.
WakeEarly(t) == t

\* FeedbackSender.cc:152 and :267: sleep_for(sleepingInterval) started at t
\* ends when the duration has passed (a later wake-up shows as a later
\* reading of the clock).
WakeAfter(t) == t + SleepingInterval(t)

\* FeedbackSender.cc:147-152: first alignment to the interval boundary.
FSStart ==
    /\ fpc = "start"
    /\ cpc["FeedbackSender"] = "loop"
    /\ sleepingInterval' = SleepingInterval(now)
    /\ now' = WakeAfter(now)
    /\ fpc' = "stamp"
    /\ UNCHANGED <<cfgVars, lifeVars, rcvVars, frVars, nbytes_reset_value, pendRecv,
                   fcur, timestamp, nbytesMap, tInfo, tm1Info, tm2Info,
                   reports, totalReported, snapRecv>>

\* FeedbackSender.cc:154-162: loop test, timestamp rounded down to the interval.
FSStamp ==
    /\ fpc = "stamp"
    /\ ~endProgram_["FeedbackSender"]
    /\ Len(reports) < workload.cycles
    /\ \E t \in ClockReads :
          /\ now' = t
          /\ timestamp' = t - (t % feedbackInterval)
    /\ nbytesMap' = << >>
    /\ fcur' = 1
    /\ fpc' = "snap"
    /\ UNCHANGED <<cfgVars, lifeVars, rcvVars, frVars, nbytes_reset_value, pendRecv,
                   sleepingInterval, tInfo, tm1Info, tm2Info,
                   reports, totalReported, snapRecv>>

\* The value one snapshot stores: uint32_t nbytes = itr.second.nbytesAcc
SnapshotValue(acc) == ToUint32(acc)

\* FeedbackSender.cc:165-168: one entry of the copy of the Receiver's map.
FSSnap ==
    /\ fpc = "snap"
    /\ LET order == MapOrder(Ifaces)
           name  == order[fcur]
       IN  /\ nbytesMap' = [n \in DOMAIN nbytesMap \cup {name} |->
                               IF n = name THEN SnapshotValue(nbytesAcc[name])
                               ELSE nbytesMap[n]]
           /\ snapRecv' = [snapRecv EXCEPT ![name] = totalRecv[name]]
           /\ IF fcur = Len(order)
              THEN fpc' = "write" /\ fcur' = 1
              ELSE fpc' = "snap" /\ fcur' = fcur + 1
    /\ UNCHANGED <<cfgVars, lifeVars, rcvVars, frVars, nbytes_reset_value, pendRecv,
                   now, timestamp, sleepingInterval, tInfo, tm1Info, tm2Info,
                   reports, totalReported>>

\* A pending drain read from the counter again instead of the snapshot.
ResetValueFresh(name) == SnapshotValue(nbytesAcc[name])

\* The value the FeedbackSender publishes as pending drain of `name'.
ResetValue(name) == nbytesMap[name]

\* FeedbackSender.cc:172-175: one entry of nbytes_reset_value.
FSWrite ==
    /\ fpc = "write"
    /\ LET order == MapOrder(DOMAIN nbytes_reset_value)
           name  == order[fcur]
       IN  /\ nbytes_reset_value' = [nbytes_reset_value EXCEPT ![name] = ResetValue(name)]
           /\ pendRecv' = [pendRecv EXCEPT ![name] = snapRecv[name]]
           /\ IF fcur = Len(order)
              THEN fpc' = "build" /\ fcur' = 1
              ELSE fpc' = "write" /\ fcur' = fcur + 1
    /\ UNCHANGED <<cfgVars, lifeVars, rcvVars, frVars,
                   now, timestamp, sleepingInterval, nbytesMap, tInfo, tm1Info,
                   tm2Info, reports, totalReported, snapRecv>>

(* --------------------------- report encoding -------------------------- *)
\* FeedbackSender.cc:210: uint32_t throughput = (nbytes * 8) / sleepingInterval
\* (the product is computed in uint32_t, the quotient in uint64_t).
Throughput(nbytes, interval) == ToUint32(ToUint32(nbytes * 8) \div interval)

\* FeedbackSender.cc:177,211-215: the 12-byte entry of one sample.
CurrInfo(le, ts, throughput) ==
    MemBytes(le, htonll(le, ts), 8) \o MemBytes(le, htonl(le, throughput), 4)

\* Entries packed as if they were 8 bytes long.
EntryOffsetPacked(j) == 4 + 8 * j

\* Offset of entry j (0 = t, 1 = t-1, 2 = t-2) inside a block
\* (FeedbackSender.cc:220,225,230).
EntryOffset(j) == 4 + 12 * j

\* BuildBlock that fills slot t-2 with the entry of t-1 again.
BuildBlockRepeat(buffer, i, t1, t2) ==
    LET offset     == 4 + sizePerRat * i
        ifaceName  == dataReceiverIfnames[i + 1]
        currInfo   == CurrInfo(txLittleEndian, timestamp,
                               Throughput(nbytesMap[ifaceName], sleepingInterval))
        b0 == Memcpy(buffer, offset, MemBytes(txLittleEndian, i, 4))
        b1 == Memcpy(b0, offset + 4, currInfo)
        b2 == IF ifaceName \in DOMAIN t1
              THEN Memcpy(b1, offset + 16, t1[ifaceName].message)
              ELSE b1
    IN  IF ifaceName \in DOMAIN t1 /\ ifaceName \in DOMAIN t2
        THEN Memcpy(b2, offset + 28, t1[ifaceName].message)
        ELSE b2

\* FeedbackSender.cc:204-232: the block of the i-th name (i counts from 0);
\* t1 and t2 are tm1Info and tm2Info after the shift of lines 180-182.
BuildBlock(buffer, i, t1, t2) ==
    LET offset     == 4 + sizePerRat * i
        ifaceName  == dataReceiverIfnames[i + 1]
        nbytes     == nbytesMap[ifaceName]
        throughput == Throughput(nbytes, sleepingInterval)
        currInfo   == CurrInfo(txLittleEndian, timestamp, throughput)
        b0 == Memcpy(buffer, offset, MemBytes(txLittleEndian, i, 4))
        b1 == Memcpy(b0, offset + EntryOffset(0), currInfo)
        b2 == IF ifaceName \in DOMAIN t1
              THEN Memcpy(b1, offset + EntryOffset(1), t1[ifaceName].message)
              ELSE b1
        b3 == IF ifaceName \in DOMAIN t1 /\ ifaceName \in DOMAIN t2
              THEN Memcpy(b2, offset + EntryOffset(2), t2[ifaceName].message)
              ELSE b2
    IN  b3

RECURSIVE BuildBlocks(_, _, _, _)
BuildBlocks(buffer, i, t1, t2) ==
    IF i = Len(dataReceiverIfnames) THEN buffer
    ELSE BuildBlocks(BuildBlock(buffer, i, t1, t2), i + 1, t1, t2)

\* FeedbackSender.cc:191-244: the report of this cycle.
BuildBuffer(t1, t2) ==
    LET numRats    == ToUint32(Len(dataReceiverIfnames))
        netNumRats == htonl(txLittleEndian, numRats)
        header     == Memcpy(Zeros(4 + Len(dataReceiverIfnames) * sizePerRat), 0, MemBytes(txLittleEndian, netNumRats, 4))
    IN  BuildBlocks(header, 0, t1, t2)

\* FeedbackSender.cc:234-241: tInfo after the loop (insert keeps the first
\* entry of a name).
BuildTInfo ==
    [n \in Range(dataReceiverIfnames) |->
        [ifaceName  |-> n,
         throughput |-> Throughput(nbytesMap[n], sleepingInterval),
         timestamp  |-> timestamp,
         message    |-> CurrInfo(txLittleEndian, timestamp,
                                 Throughput(nbytesMap[n], sleepingInterval))]]

\* The (timestamp, throughput) pairs of FeedbackMessageStruct that the report
\* of this cycle carries for each name in its slots t, t-1 and t-2; an
\* empty slot is the pair (0, 0).
NoSample == [timestamp |-> 0, throughput |-> 0]
Sample(m) == [timestamp |-> m.timestamp, throughput |-> m.throughput]
BuildSamples(t1, t2) ==
    [n \in Range(dataReceiverIfnames) |->
        << Sample(BuildTInfo[n]),
           IF n \in DOMAIN t1 THEN Sample(t1[n]) ELSE NoSample,
           IF n \in DOMAIN t1 /\ n \in DOMAIN t2 THEN Sample(t2[n]) ELSE NoSample >>]

\* FeedbackSender.cc:177-257: shift the history, build the report, sendto().
FSBuild ==
    /\ fpc = "build"
    /\ tm2Info' = tm1Info
    /\ tm1Info' = tInfo
    /\ tInfo' = BuildTInfo
    /\ reports' = Append(reports,
                     [buffer    |-> BuildBuffer(tInfo, tm1Info),
                      timestamp |-> timestamp,
                      nbytes    |-> nbytesMap,
                      interval  |-> sleepingInterval,
                      samples   |-> BuildSamples(tInfo, tm1Info)])
    /\ totalReported' = [n \in DOMAIN totalReported |->
                            IF n \in Range(dataReceiverIfnames)
                            THEN totalReported[n] + nbytesMap[n]
                            ELSE totalReported[n]]
    /\ net' = Append(net, Len(reports) + 1)
    /\ fpc' = "sleep"
    /\ UNCHANGED <<cfgVars, lifeVars, rcvVars, nbytes_reset_value, pendRecv, decoded, batch, handed, history,
                   fcur, now, timestamp, sleepingInterval, nbytesMap, snapRecv>>

\* FeedbackSender.cc:262-267: sleep until the next interval boundary.
FSSleep ==
    /\ fpc = "sleep"
    /\ \E t \in ClockReads :
          /\ sleepingInterval' = SleepingInterval(t)
          /\ now' = WakeAfter(t)
    /\ fpc' = "stamp"
    /\ UNCHANGED <<cfgVars, lifeVars, rcvVars, frVars, nbytes_reset_value, pendRecv,
                   fcur, timestamp, nbytesMap, tInfo, tm1Info, tm2Info,
                   reports, totalReported, snapRecv>>

\* FeedbackSender.cc:154,268: the loop test finds endProgram_ set.
FSExit ==
    /\ fpc = "stamp"
    /\ endProgram_["FeedbackSender"]
    /\ fpc' = "done"
    /\ UNCHANGED <<cfgVars, lifeVars, rcvVars, frVars, nbytes_reset_value, pendRecv,
                   fcur, now, timestamp, sleepingInterval, nbytesMap, tInfo,
                   tm1Info, tm2Info, reports, totalReported, snapRecv>>

(* --------------------------- FeedbackReceiver ------------------------- *)
\* ReadEntries without the test `timestamp > 0': every slot gives a record.
RECURSIVE ReadEntriesAll(_, _, _)
ReadEntriesAll(buffer, i, j) ==
    IF j = 3 THEN << >>
    ELSE LET entryOffset == 4 + i * 40 + 4 + j * 12
             ts  == ntohll(rxLittleEndian,
                           MemValue(rxLittleEndian, Slice(buffer, entryOffset, 8)))
             thr == ntohl(rxLittleEndian,
                          MemValue(rxLittleEndian, Slice(buffer, entryOffset + 8, 4)))
         IN  << [rat        |-> dataSenderIfnames[i + 1],
                 timestamp  |-> ts,
                 throughput |-> thr,
                 numBits    |-> ToUint32(thr * feedbackInterval)] >>
             \o ReadEntriesAll(buffer, i, j + 1)

\* FeedbackReceiver.cc:162-194: the records of block i, entries j..2.
RECURSIVE ReadEntries(_, _, _)
ReadEntries(buffer, i, j) ==
    IF j = 3 THEN << >>
    ELSE LET offset      == 4 + i * 40
             entryOffset == offset + 4 + j * 12
             ts  == ntohll(rxLittleEndian,
                           MemValue(rxLittleEndian, Slice(buffer, entryOffset, 8)))
             thr == ntohl(rxLittleEndian,
                          MemValue(rxLittleEndian, Slice(buffer, entryOffset + 8, 4)))
             rec == [rat        |-> dataSenderIfnames[i + 1],
                     timestamp  |-> ts,
                     throughput |-> thr,
                     numBits    |-> ToUint32(thr * feedbackInterval)]
         IN  (IF ts > 0 THEN <<rec>> ELSE << >>) \o ReadEntries(buffer, i, j + 1)

\* FeedbackReceiver.cc:153-195: the loop over the blocks; the name of block
\* i is dataSenderIfnames.at(i), which throws std::out_of_range when the
\* list has no element i.
RECURSIVE ReadBlocks(_, _, _)
ReadBlocks(buffer, i, numberOfRats) ==
    IF i >= numberOfRats THEN Returned(<< >>)
    ELSE IF i >= Len(dataSenderIfnames) THEN Thrown("std::out_of_range")
    ELSE LET rest == ReadBlocks(buffer, i + 1, numberOfRats)
         IN  IF rest.ex # "none" THEN rest
             ELSE Returned(ReadEntries(buffer, i, 0) \o rest.val)

\* FeedbackReceiver::readFeedbackMessage (FeedbackReceiver.cc:134-198)
readFeedbackMessage(buffer) ==
    LET netNumberOfRats == MemValue(rxLittleEndian, Slice(buffer, 0, 4))
        numberOfRats    == ntohl(rxLittleEndian, netNumberOfRats)
    IN  ReadBlocks(buffer, 0, numberOfRats)

\* Datagrams that reach the feedback port from another sender: a report of
\* three interfaces, a report that says two interfaces and carries one
\* block, and a report that says two interfaces and carries none.
Forged ==
    LET ForgedBlock(i, ts, thr) ==
            BEBytes(i, 4) \o BEBytes(ts, 8) \o BEBytes(thr, 4) \o Zeros(24)
    IN
    << BEBytes(3, 4) \o ForgedBlock(0, 6, 1) \o ForgedBlock(1, 6, 2)
                     \o ForgedBlock(2, 6, 3),
       BEBytes(2, 4) \o ForgedBlock(0, 6, 1),
       BEBytes(2, 4) >>

\* The bytes of a datagram in flight: report k of the FeedbackSender, or the
\* forged datagram -k.
Datagram(k) == IF k > 0 THEN reports[k].buffer ELSE Forged[-k]

\* recv(sockfd, rcvBuf, n, 0): the datagram's first n bytes land at rcvBuf[0].
\* rcvBuf is held as its written prefix; the rest of the zero-filled array
\* (FeedbackReceiver.cc:259) reads as 0.
RecvInto(rcvBuf, bytes) ==
    IF Len(bytes) >= Len(rcvBuf) THEN bytes
    ELSE bytes \o SubSeq(rcvBuf, Len(bytes) + 1, Len(rcvBuf))

\* FeedbackReceiver.cc:297-311: every recv() of the loop writes at rcvBuf[0].
RECURSIVE RecvLoop(_, _, _, _)
RecvLoop(queue, rcvBuf, total, last) ==
    IF queue = << >> THEN [rcvBuf |-> rcvBuf, total |-> total, last |-> last]
    ELSE LET dgram == Datagram(Head(queue))
             room  == FEEDBACK_RCV_BUF_LEN - total - 1
             n     == IF Len(dgram) < room THEN Len(dgram) ELSE room
         IN  IF n <= 0
             THEN [rcvBuf |-> rcvBuf, total |-> total, last |-> last]
             ELSE RecvLoop(Tail(queue), RecvInto(rcvBuf, SubSeq(dgram, 1, n)),
                           total + n, Head(queue))

\* What one iteration of the server loop decodes from the datagrams queued
\* on the socket.
Drained(queue) == readFeedbackMessage(RecvLoop(queue, << >>, 0, 0).rcvBuf)

(* ------------------------------ the sink ------------------------------ *)
\* An insert without the ON CONFLICT clause.
createInsert(table, databaseInfo) ==
    Append(table,
           [timestamp       |-> [sec  |-> databaseInfo.timestamp \div 1000,
                                 usec |-> (databaseInfo.timestamp % 1000) * 1000],
            throughput      |-> databaseInfo.throughput,
            num_bits        |-> databaseInfo.numBits,
            channel_info    |-> databaseInfo.channelInfo,
            scan_info       |-> databaseInfo.scanInfo,
            rat             |-> databaseInfo.rat,
            speed           |-> databaseInfo.speed,
            orientation     |-> databaseInfo.orientation,
            moving          |-> databaseInfo.moving,
            tx_bitrate      |-> databaseInfo.tx_bitrate,
            signal_strength |-> databaseInfo.signal_strength,
            location_id     |-> <<databaseInfo.latitude, databaseInfo.longitude>>])

\* An upsert whose every branch sets every column of the row.
createOverwrite(table, databaseInfo) ==
    LET all == createInsert(<< >>, databaseInfo)[1]
    IN  IF \E k \in DOMAIN table :
              table[k].timestamp = all.timestamp /\ table[k].rat = all.rat
        THEN [k \in DOMAIN table |->
                 IF table[k].timestamp = all.timestamp /\ table[k].rat = all.rat
                 THEN all ELSE table[k]]
        ELSE Append(table, all)

\* DatabaseManager::create (DatabaseManager.cc:38-245) with the database
\* reachable: the row of the INSERT, keyed on (timestamp, rat), and the
\* columns each of the three statements sets when the key is in the table.
\* $1 is std::to_string(timestamp / (double) 1000) (line 190), seconds with
\* six decimals, turned into a timestamp by to_timestamp($1); location_id
\* is the row of table `location' with the record's latitude and longitude.
create(table, databaseInfo) ==
    LET row == [timestamp       |-> [sec  |-> databaseInfo.timestamp \div 1000,
                                     usec |-> (databaseInfo.timestamp % 1000) * 1000],
                throughput      |-> databaseInfo.throughput,
                num_bits        |-> databaseInfo.numBits,
                channel_info    |-> databaseInfo.channelInfo,
                scan_info       |-> databaseInfo.scanInfo,
                rat             |-> databaseInfo.rat,
                speed           |-> databaseInfo.speed,
                orientation     |-> databaseInfo.orientation,
                moving          |-> databaseInfo.moving,
                tx_bitrate      |-> databaseInfo.tx_bitrate,
                signal_strength |-> databaseInfo.signal_strength,
                location_id     |-> <<databaseInfo.latitude, databaseInfo.longitude>>]
        conflict(r) == r.timestamp = row.timestamp /\ r.rat = row.rat
        empty == databaseInfo.numBits = 0 /\ databaseInfo.throughput = 0
        update(r) ==
            IF empty /\ databaseInfo.channelInfo # ""
            THEN [r EXCEPT !.channel_info    = row.channel_info,
                           !.tx_bitrate      = row.tx_bitrate,
                           !.signal_strength = row.signal_strength]
            ELSE IF empty /\ databaseInfo.scanInfo # ""
            THEN [r EXCEPT !.scan_info = row.scan_info]
            ELSE [r EXCEPT !.throughput  = row.throughput,
                           !.num_bits    = row.num_bits,
                           !.speed       = row.speed,
                           !.orientation = row.orientation,
                           !.moving      = row.moving,
                           !.location_id = row.location_id]
    IN  IF \E k \in DOMAIN table : conflict(table[k])
        THEN [k \in DOMAIN table |->
                 IF conflict(table[k]) THEN update(table[k]) ELSE table[k]]
        ELSE Append(table, row)

\* DatabaseManager::createAll (DatabaseManager.cc:29-36)
RECURSIVE createAll(_, _)
createAll(table, databaseInfoList) ==
    IF databaseInfoList = << >> THEN table
    ELSE createAll(create(table, Head(databaseInfoList)), Tail(databaseInfoList))

\* FeedbackReceiver.cc:258-335: one iteration of the server loop with data
\* ready on the socket; the records get the position read from the GPS
\* segment (FeedbackReceiver.cc:135-142, 174-190) and go to createAll. An exception that leaves readFeedbackMessage leaves
\* the thread function: std::terminate() aborts the process.
FRReceive ==
    /\ Running
    /\ net # << >>
    /\ LET r == RecvLoop(net, << >>, 0, 0)
           databaseInfoVector == Drained(net)
           info(rec) ==
               [latitude        |-> gpsInfo.lat,
                longitude       |-> gpsInfo.lon,
                speed           |-> gpsInfo.speed,
                orientation     |-> gpsInfo.head,
                moving          |-> IF 2 * gpsInfo.speed > 1 THEN 1 ELSE 0,
                throughput      |-> rec.throughput,
                numBits         |-> rec.numBits,
                channelInfo     |-> "",
                scanInfo        |-> "",
                rat             |-> rec.rat,
                timestamp       |-> rec.timestamp,
                tx_bitrate      |-> 0,
                signal_strength |-> 0]
       IN  IF databaseInfoVector.ex = "none"
           THEN /\ decoded' = decoded \cup {r.last}
                /\ batch' = [report |-> r.last, records |-> databaseInfoVector.val]
                /\ handed' = handed \cup Range(databaseInfoVector.val)
                /\ history' = createAll(history,
                                  [k \in DOMAIN databaseInfoVector.val |->
                                      info(databaseInfoVector.val[k])])
                /\ exitCode' = exitCode
           ELSE /\ exitCode' = <<128 + 6>>
                /\ UNCHANGED <<decoded, batch, handed, history>>
    /\ net' = << >>
    /\ UNCHANGED <<cfgVars, sndVars, rcvVars, fsVars, nbytes_reset_value, pendRecv,
                   array, decisionLevel, endProgram_, wakefd_, stopFlag, sockfd,
                   fdTable, eventCount, closes, mainpc, runpc, cpc, spc, hpc,
                   signals, sigInstalled>>

\* A datagram of another sender arrives at the feedback port (one at a
\* time).
NetForged ==
    /\ \A k \in 1..Len(net) : net[k] > 0
    /\ \E j \in 1..Len(Forged) : net' = Append(net, -j)
    /\ UNCHANGED <<cfgVars, lifeVars, rcvVars, fsVars, nbytes_reset_value, pendRecv,
                   decoded, batch, handed, history>>

\* ChannelMonitor.cc:731-780: the channel monitor of the same host stores
\* one record per wireless interface: the coded channel information, the
\* bitrate and the signal strength, no throughput and position 0. Its
\* timestamp is read from a variable that is initialized from itself (line
\* 761), so it is any value; here one of the timestamps of the reports.
ChannelCreate ==
    /\ \E k \in 1..Len(reports), name \in Range(dataSenderIfnames) :
          history' = create(history,
                        [latitude        |-> 0,
                         longitude       |-> 0,
                         speed           |-> 0,
                         orientation     |-> 0,
                         moving          |-> 0,
                         throughput      |-> 0,
                         numBits         |-> 0,
                         channelInfo     |-> "wifi",
                         scanInfo        |-> "",
                         rat             |-> name,
                         timestamp       |-> reports[k].timestamp,
                         tx_bitrate      |-> 1,
                         signal_strength |-> -1])
    /\ UNCHANGED <<cfgVars, lifeVars, rcvVars, fsVars, nbytes_reset_value, pendRecv,
                   net, decoded, batch, handed>>

\* mygpsd.cc:455-470: the GPS daemon writes a new fix into the segment.
GpsdWrite ==
    /\ gpsInfo' \in { [lat |-> 0, lon |-> 0, speed |-> 0, head |-> 0],
                      [lat |-> 1, lon |-> 1, speed |-> 1, head |-> 1] } \ {gpsInfo}
    /\ UNCHANGED <<dataReceiverIfnames, dataSenderIfnames, feedbackInterval,
                   txLittleEndian, rxLittleEndian, workload, cfile, loaded,
                   lifeVars, rcvVars, fsVars, frVars, nbytes_reset_value, pendRecv>>

\* The feedback channel is UDP: a datagram on its way may be lost.
NetLose ==
    /\ \E k \in 1..Len(net) :
          net' = [j \in 1..Len(net) - 1 |-> IF j < k THEN net[j] ELSE net[j + 1]]
    /\ UNCHANGED <<cfgVars, lifeVars, rcvVars, fsVars, nbytes_reset_value, pendRecv,
                   decoded, batch, handed, history>>

(* ------------------------- process life cycle ------------------------- *)
\* main(): readConfig of array[0], then of array[1]. An exception that
\* leaves readConfig leaves main: std::terminate() aborts the process
\* (status 128 + SIGABRT); LOG_FATAL_EXIT is exit(1).
ReadConfig ==
    /\ Running
    /\ mainpc = "start"
    /\ \E k \in 1..2 :
          /\ array[k] \notin DOMAIN loaded
          /\ \A j \in 1..k - 1 : array[j] \in DOMAIN loaded
          /\ LET s == readConfig(array[k], cfile)
             IN  /\ loaded' = (array[k] :> s) @@ loaded
                 /\ exitCode' = IF s.ex = "none" THEN exitCode
                                ELSE IF s.ex = "exit" THEN <<1>>
                                ELSE <<128 + 6>>
    /\ UNCHANGED <<dataReceiverIfnames, dataSenderIfnames, feedbackInterval,
                   txLittleEndian, rxLittleEndian, workload, cfile, gpsInfo,
                   rcvVars, fsVars, frVars, nbytes_reset_value, pendRecv, sndVars,
                   array, decisionLevel, endProgram_, wakefd_, stopFlag,
                   sockfd, fdTable, eventCount, closes, mainpc, runpc, cpc,
                   spc, hpc, signals, sigInstalled>>

\* Everything the life cycle of the process leaves to the data path.
dataVars == <<cfgVars, rcvVars, fsVars, frVars, nbytes_reset_value, pendRecv>>

\* main(): dsender.cc:45-55 installs sigHandler itself, dreceiver.cc:42-48
\* does not; both start the two run() threads.
MainStart ==
    /\ Running
    /\ mainpc = "start"
    /\ mainpc' = "join"
    /\ sigInstalled' = (array[1] = "DataSender")
    /\ runpc' = [o \in Objects |-> IF o \in Range(array) THEN "eventfd" ELSE runpc[o]]
    /\ UNCHANGED <<dataVars, sndVars, array, decisionLevel, endProgram_,
                   wakefd_, stopFlag, sockfd, fdTable, eventCount, closes,
                   cpc, spc, hpc, signals, exitCode>>

\* main(): both threads joined, return 0 (dsender.cc:59-66, dreceiver.cc:50-55).
MainReturn ==
    /\ Running
    /\ mainpc = "join"
    /\ \A o \in Range(array) : runpc[o] = "returned"
    /\ mainpc' = "returned"
    /\ exitCode' = <<0>>
    /\ UNCHANGED <<dataVars, sndVars, array, decisionLevel, endProgram_,
                   wakefd_, stopFlag, sockfd, fdTable, eventCount, closes,
                   runpc, cpc, spc, hpc, signals, sigInstalled>>

\* DataTransfer::run (DataTransfer.cc:162-164): wakefd_ = eventfd(0, 0)
RunEventfd(o) ==
    /\ Running
    /\ runpc[o] = "eventfd"
    /\ LET fd == LowestFree(fdTable)
       IN  /\ fdTable' = [fdTable EXCEPT ![fd] = [kind |-> "eventfd", owner |-> o]]
           /\ eventCount' = [eventCount EXCEPT ![fd] = 0]
           /\ wakefd_' = [wakefd_ EXCEPT ![o] = fd]
    /\ runpc' = [runpc EXCEPT ![o] = "launch"]
    /\ UNCHANGED <<dataVars, sndVars, array, decisionLevel, endProgram_,
                   stopFlag, sockfd, closes, mainpc, cpc, spc, hpc, signals,
                   sigInstalled, exitCode>>

\* DataTransfer::run (DataTransfer.cc:167-175): signal() and the launch of
\* commThread.
RunLaunch(o) ==
    /\ Running
    /\ runpc[o] = "launch"
    /\ sigInstalled' = TRUE
    /\ cpc' = [cpc EXCEPT ![o] = "sockets"]
    /\ runpc' = [runpc EXCEPT ![o] = "join"]
    /\ UNCHANGED <<dataVars, sndVars, array, decisionLevel, endProgram_,
                   wakefd_, stopFlag, sockfd, fdTable, eventCount, closes,
                   mainpc, spc, hpc, signals, exitCode>>

\* DataTransfer::run (DataTransfer.cc:179): commThread.join() and return.
RunJoin(o) ==
    /\ Running
    /\ runpc[o] = "join"
    /\ cpc[o] = "done"
    /\ runpc' = [runpc EXCEPT ![o] = "returned"]
    /\ UNCHANGED <<dataVars, sndVars, array, decisionLevel, endProgram_,
                   wakefd_, stopFlag, sockfd, fdTable, eventCount, closes,
                   mainpc, cpc, spc, hpc, signals, sigInstalled, exitCode>>

\* The socket loop of each commThread (DataReceiver.cc:97-136,
\* DataSender.cc:157-209, FeedbackSender.cc:85-123, FeedbackReceiver.cc:207-249).
CommSockets(o) ==
    /\ Running
    /\ cpc[o] = "sockets"
    /\ LET r == OpenSockets(fdTable, sockfd[o], o, MapOrder(DOMAIN sockfd[o]))
       IN  /\ fdTable' = r.fdTable
           /\ sockfd' = [sockfd EXCEPT ![o] = r.sockfd]
    /\ cpc' = [cpc EXCEPT ![o] =
                  IF o = "DataReceiver" THEN "spawn"
                  ELSE IF o = "FeedbackSender" THEN "loop"
                  ELSE IF o = "FeedbackReceiver" THEN "test"
                  ELSE IF decisionLevel = 0 THEN "spawn" ELSE "pick"]
    /\ UNCHANGED <<dataVars, sndVars, array, decisionLevel, endProgram_,
                   wakefd_, stopFlag, eventCount, closes, mainpc, runpc, spc,
                   hpc, signals, sigInstalled, exitCode>>

\* The socket loop of a commThread (DataSender.cc:169-207,
\* DataReceiver.cc:110-133, FeedbackSender.cc:99-121,
\* FeedbackReceiver.cc:220-246) in which the call `step' fails for the k-th
\* interface ("addrCli", "addr" and "addrSrv" are the inet_pton() of
\* createSockaddr): the sockets of the k-1 earlier interfaces are open and
\* saved, the k-th socket is open unless socket() itself failed, and the
\* branch ends in LOG_FATAL_EXIT (exit(1)). Every failure branch but those
\* of socket() and setsockopt() calls closeIfaceSocks() first; "addrSrv" is
\* converted after the descriptor was saved in the entry.
CommSocketsFail(o) ==
    /\ Running
    /\ cpc[o] = "sockets"
    /\ \E k \in 1..Cardinality(DOMAIN sockfd[o]) :
       \E step \in (IF o = "DataSender"
                    THEN {"socket", "setsockopt", "addrCli", "bind", "connect",
                          "addrSrv"}
                    ELSE IF o = "FeedbackSender"
                    THEN {"socket", "addrCli", "bind", "addrSrv"}
                    ELSE {"socket", "fcntl", "addr", "bind"}) :
          LET ClosesOnFailure == step \notin {"socket", "setsockopt"}
              SavedBefore     == step = "addrSrv"
              order == MapOrder(DOMAIN sockfd[o])
              r     == OpenSockets(fdTable, sockfd[o], o, SubSeq(order, 1, k - 1))
              fd    == LowestFree(r.fdTable)
              t     == IF step = "socket" THEN r.fdTable
                       ELSE [r.fdTable EXCEPT ![fd] = [kind |-> "socket", owner |-> o]]
              socks == IF SavedBefore THEN [r.sockfd EXCEPT ![order[k]] = fd]
                       ELSE r.sockfd
              c     == IF ClosesOnFailure
                       THEN CloseSockets(t, closes, socks, o, order)
                       ELSE [fdTable |-> t, closes |-> closes]
          IN  /\ fdTable' = c.fdTable
              /\ closes' = c.closes
              /\ sockfd' = [sockfd EXCEPT ![o] = socks]
    /\ exitCode' = <<1>>
    /\ UNCHANGED <<dataVars, sndVars, array, decisionLevel, endProgram_,
                   wakefd_, stopFlag, eventCount, mainpc, runpc, cpc, spc,
                   hpc, signals, sigInstalled>>

\* A stopThread that also closes the sockets of the object.
stopThreadClosing(o) ==
    /\ endProgram_' = [endProgram_ EXCEPT ![o] = TRUE]
    /\ eventCount' = IF wakefd_[o] \in Fds /\ fdTable[wakefd_[o]].kind = "eventfd"
                     THEN [eventCount EXCEPT ![wakefd_[o]] = @ + 1]
                     ELSE eventCount
    /\ stopFlag' = IF o \in DataObjects THEN [stopFlag EXCEPT ![o] = TRUE]
                   ELSE stopFlag
    /\ closeIfaceSocks(o)
    /\ UNCHANGED <<dataVars, sndVars, array, decisionLevel, wakefd_, sockfd,
                   mainpc, runpc, cpc, spc, sigInstalled, exitCode>>

\* DataTransfer::stopThread with the overrides of DataReceiver and
\* DataSender (DataTransfer.cc:25-29, DataReceiver.cc:40-46,
\* DataSender.cc:29-33): the flags and the wake signal.
stopThread(o) ==
    /\ endProgram_' = [endProgram_ EXCEPT ![o] = TRUE]
    /\ eventCount' = IF wakefd_[o] \in Fds /\ fdTable[wakefd_[o]].kind = "eventfd"
                     THEN [eventCount EXCEPT ![wakefd_[o]] = @ + 1]
                     ELSE eventCount
    /\ stopFlag' = IF o \in DataObjects THEN [stopFlag EXCEPT ![o] = TRUE]
                   ELSE stopFlag
    /\ UNCHANGED <<dataVars, sndVars, array, decisionLevel, wakefd_, sockfd,
                   fdTable, closes, mainpc, runpc, cpc, spc, sigInstalled,
                   exitCode>>

\* sigHandler (dreceiver.cc:25-28, dsender.cc:27-30): stopThread() on
\* array[0], then on array[1].
SigHandler ==
    /\ Running
    /\ sigInstalled
    /\ signals < MaxSignals
    /\ stopThread(array[hpc + 1])
    /\ hpc' = IF hpc = 0 THEN 1 ELSE 0
    /\ signals' = IF hpc = 0 THEN signals ELSE signals + 1

(* ---------------- commThread of DataReceiver, FeedbackSender ---------- *)
\* DataReceiver.cc:140-184: one worker thread per entry of ifaceMap.
DRSpawn ==
    /\ Running
    /\ cpc["DataReceiver"] = "spawn"
    /\ cpc' = [cpc EXCEPT !["DataReceiver"] = "join"]
    /\ UNCHANGED <<dataVars, sndVars, array, decisionLevel, endProgram_,
                   wakefd_, stopFlag, sockfd, fdTable, eventCount, closes,
                   mainpc, runpc, spc, hpc, signals, sigInstalled, exitCode>>

\* A commThread that closes the sockets without joining the workers.
DRCloseEarly ==
    /\ Running
    /\ cpc["DataReceiver"] = "join"
    /\ closeIfaceSocks("DataReceiver")
    /\ cpc' = [cpc EXCEPT !["DataReceiver"] = "done"]
    /\ UNCHANGED <<dataVars, sndVars, array, decisionLevel, endProgram_,
                   wakefd_, stopFlag, sockfd, eventCount, mainpc, runpc, spc,
                   hpc, signals, sigInstalled, exitCode>>

\* DataReceiver.cc:186-191: every worker joined, then closeIfaceSocks().
DRClose ==
    /\ Running
    /\ cpc["DataReceiver"] = "join"
    /\ \A i \in Ifaces : wpc[i] = "done"
    /\ closeIfaceSocks("DataReceiver")
    /\ cpc' = [cpc EXCEPT !["DataReceiver"] = "done"]
    /\ UNCHANGED <<dataVars, sndVars, array, decisionLevel, endProgram_,
                   wakefd_, stopFlag, sockfd, eventCount, mainpc, runpc, spc,
                   hpc, signals, sigInstalled, exitCode>>

\* FeedbackSender.cc:268-270: the loop is left, closeIfaceSocks().
FSClose ==
    /\ Running
    /\ cpc["FeedbackSender"] = "loop"
    /\ fpc = "done"
    /\ closeIfaceSocks("FeedbackSender")
    /\ cpc' = [cpc EXCEPT !["FeedbackSender"] = "done"]
    /\ UNCHANGED <<dataVars, sndVars, array, decisionLevel, endProgram_,
                   wakefd_, stopFlag, sockfd, eventCount, mainpc, runpc, spc,
                   hpc, signals, sigInstalled, exitCode>>

\* FeedbackSender.cc:177-254 when sendto() returns -1: the report was
\* built and the history shifted, then closeIfaceSocks() and
\* LOG_FATAL_PERROR_EXIT.
FSBuildFail ==
    /\ Running
    /\ fpc = "build"
    /\ tm2Info' = tm1Info
    /\ tm1Info' = tInfo
    /\ tInfo' = BuildTInfo
    /\ closeIfaceSocks("FeedbackSender")
    /\ exitCode' = <<1>>
    /\ fpc' = "exit"
    /\ UNCHANGED <<cfgVars, sndVars, rcvVars, frVars, nbytes_reset_value, pendRecv,
                   fcur, now, timestamp, sleepingInterval, nbytesMap, reports,
                   totalReported, snapRecv, array, decisionLevel, endProgram_,
                   wakefd_, stopFlag, sockfd, eventCount, mainpc, runpc, cpc,
                   spc, hpc, signals, sigInstalled>>

(* -------------------- commThread of FeedbackReceiver ------------------ *)
\* FeedbackReceiver.cc:258: the loop test ("test"/"select" in the first
\* iteration, "retest"/"reselect" afterwards).
FRTest ==
    /\ Running
    /\ cpc["FeedbackReceiver"] \in {"test", "retest"}
    /\ cpc' = [cpc EXCEPT !["FeedbackReceiver"] =
                  IF endProgram_["FeedbackReceiver"] THEN "close"
                  ELSE IF @ = "test" THEN "select" ELSE "reselect"]
    /\ UNCHANGED <<dataVars, sndVars, array, decisionLevel, endProgram_,
                   wakefd_, stopFlag, sockfd, fdTable, eventCount, closes,
                   mainpc, runpc, spc, hpc, signals, sigInstalled, exitCode>>

\* The descriptors the FeedbackReceiver adds to sockfdSet: the socket of the
\* first entry of its ifaceMap and wakefd_ (FeedbackReceiver.cc:268-273).
FRSelectFds ==
    { sockfd["FeedbackReceiver"][MapOrder(DOMAIN sockfd["FeedbackReceiver"])[1]],
      wakefd_["FeedbackReceiver"] }

\* FeedbackReceiver.cc:254,272-273: sockfdSet is never cleared, so the first
\* select() also sees whatever bits the stack held, of which those below
\* maxfd count; later calls start from the descriptors select() left set.
FRGarbage ==
    IF cpc["FeedbackReceiver"] = "select"
    THEN SUBSET { f \in Fds : \E g \in FRSelectFds : f < g }
    ELSE { {} }

\* select() fails with EBADF when a descriptor of the set is not open.
BadFd(fds) == \E f \in fds : f \in Fds /\ fdTable[f].kind = "free"

\* Some descriptor of the set is readable: an eventfd whose counter is not
\* zero (no feedback datagram arrives here).
Readable(fds) ==
    \E f \in fds : f \in Fds /\ fdTable[f].kind = "eventfd" /\ eventCount[f] > 0

\* FeedbackReceiver.cc:279-335: select() without timeout returns on the wake
\* signal with nothing to read (createAll of an empty vector), or fails:
\* closeIfaceSocks() and exit(1).
FRSelect ==
    /\ Running
    /\ cpc["FeedbackReceiver"] \in {"select", "reselect"}
    /\ \E g \in FRGarbage :
          IF BadFd(FRSelectFds \cup g)
          THEN /\ closeIfaceSocks("FeedbackReceiver")
               /\ exitCode' = <<1>>
               /\ UNCHANGED cpc
          ELSE /\ Readable(FRSelectFds \cup g)
               /\ cpc' = [cpc EXCEPT !["FeedbackReceiver"] = "retest"]
               /\ UNCHANGED <<fdTable, closes, exitCode>>
    /\ UNCHANGED <<dataVars, sndVars, array, decisionLevel, endProgram_,
                   wakefd_, stopFlag, sockfd, eventCount, mainpc, runpc, spc,
                   hpc, signals, sigInstalled>>

\* FeedbackReceiver.cc:337-338: the loop is left, closeIfaceSocks().
FRClose ==
    /\ Running
    /\ cpc["FeedbackReceiver"] = "close"
    /\ closeIfaceSocks("FeedbackReceiver")
    /\ cpc' = [cpc EXCEPT !["FeedbackReceiver"] = "done"]
    /\ UNCHANGED <<dataVars, sndVars, array, decisionLevel, endProgram_,
                   wakefd_, stopFlag, sockfd, eventCount, mainpc, runpc, spc,
                   hpc, signals, sigInstalled, exitCode>>

(* ------------------- a signal that interrupts select() ---------------- *)
\* A termination signal is delivered to a thread that is blocked in
\* select(): sigHandler (dreceiver.cc:25-28, dsender.cc:27-30) runs on that
\* thread and makes its two stopThread() calls, and select() then returns -1
\* with EINTR (it is never restarted after a handler). The thread is left at
\* the test of the return value. The threads that block in select() are
\* the FeedbackReceiver thread (FeedbackReceiver.cc:279) and every
\* DataReceiver worker that passed its loop test (DataReceiver.cc:156-163).
SignalInSelect(t) ==
    /\ Running
    /\ sigInstalled
    /\ signals < MaxSignals
    /\ hpc = 0
    /\ IF t = "FeedbackReceiver"
       THEN cpc[t] \in {"select", "reselect"}
       ELSE /\ t \in Ifaces
            /\ wpc[t] = "check"
            /\ cpc["DataReceiver"] = "join"
            /\ ~stopFlag["DataReceiver"]
    /\ LET objs == Range(array)
       IN  /\ endProgram_' = [o \in DOMAIN endProgram_ |->
                                 (o \in objs) \/ endProgram_[o]]
           /\ stopFlag' = [o \in DOMAIN stopFlag |->
                              (o \in objs /\ o \in DataObjects) \/ stopFlag[o]]
           /\ eventCount' = [f \in DOMAIN eventCount |->
                  eventCount[f]
                  + Cardinality({ o \in objs : /\ wakefd_[o] = f
                                               /\ fdTable[f].kind = "eventfd" })]
    /\ signals' = signals + 1
    /\ IF t = "FeedbackReceiver"
       THEN /\ cpc' = [cpc EXCEPT ![t] = "eintr"]
            /\ UNCHANGED wpc
       ELSE /\ wpc' = [wpc EXCEPT ![t] = "eintr"]
            /\ UNCHANGED cpc
    /\ UNCHANGED <<cfgVars, sndVars, fsVars, frVars, nbytes_reset_value, pendRecv,
                   nbytesAcc, wreg, nrecv, totalRecv, totalSub, wregRecv,
                   array, decisionLevel, wakefd_, sockfd, fdTable, closes,
                   mainpc, runpc, spc, hpc, sigInstalled, exitCode>>

\* DataReceiver.cc:163-166, FeedbackReceiver.cc:279-282: select() returned
\* -1: closeIfaceSocks() and LOG_FATAL_PERROR_EXIT (exit(1)).
SelectEintr(t) ==
    /\ Running
    /\ IF t = "FeedbackReceiver" THEN cpc[t] = "eintr"
       ELSE t \in Ifaces /\ wpc[t] = "eintr"
    /\ closeIfaceSocks(IF t = "FeedbackReceiver" THEN t ELSE "DataReceiver")
    /\ exitCode' = <<1>>
    /\ UNCHANGED <<dataVars, sndVars, array, decisionLevel, endProgram_,
                   wakefd_, stopFlag, sockfd, eventCount, mainpc, runpc, cpc,
                   spc, hpc, signals, sigInstalled>>

(* ------------------------ commThread of DataSender -------------------- *)
\* std::default_random_engine (libstdc++: minstd_rand0), one step:
\* x' = 16807 * x mod (2^31 - 1), by Schrage's method.
MinstdNext(x) ==
    LET t == 16807 * (x % 127773) - 2836 * (x \div 127773)
    IN  IF t < 0 THEN t + 2147483647 ELSE t

\* std::uniform_int_distribution<int>(0, n) applied to an engine in state x
\* (libstdc++: downscaling of the engine's range 1 .. 2^31 - 2, with
\* rejection).
RECURSIVE UniformDraw(_, _)
UniformDraw(x, n) ==
    LET scaling == 2147483645 \div (n + 1)
        ret     == MinstdNext(x) - 1
    IN  IF ret >= (n + 1) * scaling THEN UniformDraw(MinstdNext(x), n)
        ELSE ret \div scaling

\* DataSender.cc:80-82: a fresh engine with the fixed seed and a
\* distribution over 0 .. ifaceMap.size(), both bounds included.
Draw(size) == UniformDraw(Seed, size)

\* DataSender::pickRandomIface (DataSender.cc:79-88): the key idx steps
\* after begin(). With idx = size() the iterator is end() and reading its
\* key is undefined: the call crashes or returns a string that is no key.
pickRandomIface(table) ==
    LET idx   == Draw(Cardinality(table))
        order == MapOrder(table)
    IN  IF idx < Len(order) THEN {order[idx + 1]} ELSE {"", "SIGSEGV"}

\* this->ifaceMap[name]: a missing key is inserted with a value-initialized
\* IfaceInfo, whose sockfd is 0.
AtOrInsert(socks, name) ==
    [n \in DOMAIN socks \cup {name} |-> IF n \in DOMAIN socks THEN socks[n] ELSE 0]

\* DataSender.cc:90-113: one worker per entry of ifaceMap.
DSSpawn ==
    /\ Running
    /\ cpc["DataSender"] = "spawn"
    /\ spc' = [i \in DOMAIN spc |-> "send"]
    /\ cpc' = [cpc EXCEPT !["DataSender"] = "join"]
    /\ UNCHANGED <<dataVars, sndVars, array, decisionLevel, endProgram_,
                   wakefd_, stopFlag, sockfd, fdTable, eventCount, closes,
                   mainpc, runpc, hpc, signals, sigInstalled, exitCode>>

\* A worker that returns when sendto() fails with an error other than
\* EAGAIN.
SenderSendFatal(i) ==
    /\ Running
    /\ spc[i] = "send"
    /\ ~stopFlag["DataSender"]
    /\ \E ret \in {"sent", "EAGAIN", "error"} :
          /\ sends' = sends \cup {[by |-> i, name |-> i, fd |-> sockfd["DataSender"][i],
                                   ret |-> ret, at |-> now]}
          /\ spc' = [spc EXCEPT ![i] = IF ret = "error" THEN "done" ELSE @]
    /\ UNCHANGED <<dataVars, decision, decisionExpiresAt, sNow, iinfo, picks,
                   replay, pickedAt, array, decisionLevel, endProgram_,
                   wakefd_, stopFlag, sockfd, fdTable, eventCount, closes,
                   mainpc, runpc, cpc, hpc, signals, sigInstalled,
                   exitCode>>

\* DataSender.cc:99-111: one sendto() of worker i on its own entry; the
\* result is logged at most.
SenderSend(i) ==
    /\ Running
    /\ spc[i] = "send"
    /\ ~stopFlag["DataSender"]
    /\ \E ret \in {"sent", "EAGAIN", "error"} :
          sends' = sends \cup {[by |-> i, name |-> i, fd |-> sockfd["DataSender"][i],
                                ret |-> ret, at |-> now]}
    /\ UNCHANGED <<dataVars, decision, decisionExpiresAt, sNow, iinfo, picks,
                   replay, pickedAt, array, decisionLevel, endProgram_,
                   wakefd_, stopFlag, sockfd, fdTable, eventCount, closes,
                   mainpc, runpc, cpc, spc, hpc, signals, sigInstalled,
                   exitCode>>

\* DataSender.cc:99: the loop test finds stopFlag set.
SenderExit(i) ==
    /\ Running
    /\ spc[i] = "send"
    /\ stopFlag["DataSender"]
    /\ spc' = [spc EXCEPT ![i] = "done"]
    /\ UNCHANGED <<dataVars, sndVars, array, decisionLevel, endProgram_,
                   wakefd_, stopFlag, sockfd, fdTable, eventCount, closes,
                   mainpc, runpc, cpc, hpc, signals, sigInstalled, exitCode>>

\* DataSender.cc:115-119: every worker joined, then closeIfaceSocks().
DSJoinClose ==
    /\ Running
    /\ cpc["DataSender"] = "join"
    /\ \A i \in DOMAIN spc : spc[i] = "done"
    /\ closeIfaceSocks("DataSender")
    /\ cpc' = [cpc EXCEPT !["DataSender"] = "close"]
    /\ UNCHANGED <<dataVars, sndVars, array, decisionLevel, endProgram_,
                   wakefd_, stopFlag, sockfd, eventCount, mainpc, runpc, spc,
                   hpc, signals, sigInstalled, exitCode>>

\* DataSender.cc:123-131: sendOneInterface before its loop.
DSPick ==
    /\ Running
    /\ cpc["DataSender"] = "pick"
    /\ sNow' = now
    /\ pickedAt' = now
    /\ \E name \in pickRandomIface(DOMAIN sockfd["DataSender"]) :
          /\ picks' = Append(picks, name)
          /\ IF name = "SIGSEGV"
             THEN /\ exitCode' = <<139>>
                  /\ UNCHANGED <<decision, iinfo, sockfd, cpc>>
             ELSE /\ decision' = name
                  /\ iinfo' = name
                  /\ sockfd' = [sockfd EXCEPT !["DataSender"] = AtOrInsert(@, name)]
                  /\ cpc' = [cpc EXCEPT !["DataSender"] = "one"]
                  /\ UNCHANGED exitCode
    /\ decisionExpiresAt' = 0
    /\ UNCHANGED <<dataVars, replay, sends, array, decisionLevel,
                   endProgram_, wakefd_, stopFlag, fdTable, eventCount,
                   closes, mainpc, runpc, spc, hpc, signals, sigInstalled>>

\* DataSender.cc:133-148: one iteration of the loop of sendOneInterface.
\* `iinfo = this->ifaceMap[this->decision]' assigns to the entry iinfo
\* refers to; the sendto() that follows uses that entry.
DSOne ==
    /\ Running
    /\ cpc["DataSender"] = "one"
    /\ ~endProgram_["DataSender"]
    /\ IF sNow > decisionExpiresAt
       THEN \E name \in pickRandomIface(DOMAIN sockfd["DataSender"]) :
               /\ picks' = Append(picks, name)
               /\ pickedAt' = now
               /\ IF name = "SIGSEGV"
                  THEN /\ exitCode' = <<139>>
                       /\ UNCHANGED <<decision, sockfd, decisionExpiresAt, sends>>
                  ELSE LET socks == AtOrInsert(sockfd["DataSender"], name)
                           after == [socks EXCEPT ![iinfo] = socks[name]]
                       IN  /\ decision' = name
                           /\ sockfd' = [sockfd EXCEPT !["DataSender"] = after]
                           /\ decisionExpiresAt' = sNow + DecisionPeriod
                           /\ sends' = sends \cup {[by |-> "one", name |-> name,
                                                    fd |-> after[iinfo], ret |-> "any",
                                     at |-> now]}
                           /\ UNCHANGED exitCode
       ELSE /\ sends' = sends \cup {[by |-> "one", name |-> decision,
                                     fd |-> sockfd["DataSender"][iinfo], ret |-> "any",
                                     at |-> now]}
            /\ UNCHANGED <<picks, pickedAt, exitCode, decision, sockfd,
                           decisionExpiresAt>>
    /\ UNCHANGED <<dataVars, sNow, iinfo, replay, array, decisionLevel,
                   endProgram_, wakefd_, stopFlag, fdTable, eventCount,
                   closes, mainpc, runpc, cpc, spc, hpc, signals,
                   sigInstalled>>

\* DataSender.cc:133: the loop test finds endProgram_ set.
DSOneExit ==
    /\ Running
    /\ cpc["DataSender"] = "one"
    /\ endProgram_["DataSender"]
    /\ cpc' = [cpc EXCEPT !["DataSender"] = "close"]
    /\ UNCHANGED <<dataVars, sndVars, array, decisionLevel, endProgram_,
                   wakefd_, stopFlag, sockfd, fdTable, eventCount, closes,
                   mainpc, runpc, spc, hpc, signals, sigInstalled, exitCode>>

\* DataSender.cc:221-222: commThread's own closeIfaceSocks().
DSClose ==
    /\ Running
    /\ cpc["DataSender"] = "close"
    /\ closeIfaceSocks("DataSender")
    /\ cpc' = [cpc EXCEPT !["DataSender"] = "done"]
    /\ UNCHANGED <<dataVars, sndVars, array, decisionLevel, endProgram_,
                   wakefd_, stopFlag, sockfd, eventCount, mainpc, runpc, spc,
                   hpc, signals, sigInstalled, exitCode>>

\* A second run of the Sender on the same interface table makes its next
\* pick; its table is the one it has after the picks it made.
ReplayPick ==
    /\ Len(replay) < Len(picks)
    /\ IF replay = << >> THEN TRUE ELSE replay[Len(replay)] # "SIGSEGV"
    /\ \E name \in pickRandomIface(Range(dataSenderIfnames)
                                       \cup {n \in Range(replay) : n = ""}) :
          replay' = Append(replay, name)
    /\ UNCHANGED <<dataVars, decision, decisionExpiresAt, sNow, iinfo, picks,
                   pickedAt, sends, array, decisionLevel, endProgram_,
                   wakefd_, stopFlag, sockfd, fdTable, eventCount, closes,
                   mainpc, runpc, cpc, spc, hpc, signals, sigInstalled,
                   exitCode>>

\* Wall-clock time passes while the Sender is in its send loop.
Tick ==
    /\ Running
    /\ cpc["DataSender"] = "one"
    /\ now < MaxClock
    /\ now' = now + TickMillis
    /\ UNCHANGED <<cfgVars, lifeVars, rcvVars, frVars, nbytes_reset_value, pendRecv,
                   fpc, fcur, timestamp, sleepingInterval, nbytesMap, tInfo,
                   tm1Info, tm2Info, reports, totalReported, snapRecv>>

(* ------------------------------ the system ---------------------------- *)
\* The state after construction, readConfig and the socket setup of
\* commThread, for the interface-name list `names' and a clock reading.
InitData(names, byteOrders, clock) ==
    /\ dataReceiverIfnames = names
    /\ dataSenderIfnames = names
    /\ feedbackInterval \in FeedbackIntervals
    /\ txLittleEndian \in byteOrders
    /\ rxLittleEndian \in byteOrders
    /\ nbytes_reset_value = [n \in Range(names) |-> 0]
    /\ wreg = [n \in Range(names) |-> 0]
    /\ nrecv = [n \in Range(names) |-> 0]
    /\ fcur = 1
    /\ now \in clock
    /\ timestamp = 0
    /\ sleepingInterval = 0
    /\ nbytesMap = << >>
    /\ tInfo = << >>
    /\ tm1Info = << >>
    /\ tm2Info = << >>
    /\ reports = << >>
    /\ net = << >>
    /\ decoded = {}
    /\ batch = [report |-> 0, records |-> << >>]
    /\ handed = {}
    /\ history = << >>
    /\ gpsInfo = [lat |-> 0, lon |-> 0, speed |-> 0, head |-> 0]
    /\ totalSub = [n \in Range(names) |-> 0]
    /\ totalReported = [n \in Range(names) |-> 0]
    /\ snapRecv = [n \in Range(names) |-> 0]
    /\ pendRecv = [n \in Range(names) |-> 0]
    /\ wregRecv = [n \in Range(names) |-> 0]

\* The same with the process up: workers at their loop test, the
\* FeedbackSender before its first sleep.
InitWithLoad(names, byteOrders, clock, load) ==
    /\ InitData(names, byteOrders, clock)
    /\ Constructed(names)
    /\ Started(names)
    /\ ConfigRead(names, array, decisionLevel)
    /\ workload = load
    /\ wpc = [n \in Range(names) |-> "check"]
    /\ fpc = "start"

\* The dreceiver process (DataReceiver workers and FeedbackSender) on one
\* interface, from its start: every counter is 0.
InitCounters ==
    /\ InitWithLoad(<<"lo">>, {TRUE}, {FirstClock},
                    [cycles |-> MaxCycles, recv |-> MaxRecv])
    /\ nbytesAcc = [n \in {"lo"} |-> 0]
    /\ totalRecv = [n \in {"lo"} |-> 0]

Worker(i) ==
    \/ WorkerCheck(i)
    \/ WorkerSub(i)
    \/ WorkerZero(i)
    \/ WorkerRecv(i)
    \/ WorkerRecvDone(i)

FeedbackSender ==
    \/ FSStart
    \/ FSStamp
    \/ FSSnap
    \/ FSWrite
    \/ FSBuild
    \/ FSSleep

NextCounters ==
    \/ \E i \in Ifaces : Worker(i)
    \/ FeedbackSender

SpecCounters == InitCounters /\ [][NextCounters]_vars

\* The dreceiver process on two interfaces, one worker each, for one
\* feedback cycle.
InitIsolation ==
    /\ \E names \in IfnameLists :
          InitWithLoad(names, {TRUE}, {FirstClock},
                       [cycles |-> ProcCycles, recv |-> ProcRecv])
    /\ nbytesAcc = [n \in Range(dataReceiverIfnames) |-> 0]
    /\ totalRecv = nbytesAcc

SpecIsolation == InitIsolation /\ [][NextCounters]_vars

\* The feedback path end to end (FeedbackSender, the lossy channel and the
\* FeedbackReceiver) on two interfaces, while the data plane is silent: the
\* counters hold what was received before.
InitWire ==
    /\ \E names \in IfnameLists :
          InitWithLoad(names, BOOLEAN, FirstClock .. FirstClock + 1,
                       [cycles |-> MaxCycles, recv |-> MaxRecv])
    /\ nbytesAcc \in [Range(dataReceiverIfnames) -> 0..MaxAcc]
    /\ totalRecv = nbytesAcc

NextWire ==
    \/ FeedbackSender
    \/ NetLose
    \/ FRReceive

SpecWire == InitWire /\ [][NextWire]_vars

\* The same with datagrams of other senders arriving at the feedback port.
InitForged ==
    /\ \E names \in IfnameLists :
          InitWithLoad(names, BOOLEAN, {FirstClock},
                       [cycles |-> ProcCycles, recv |-> ProcRecv])
    /\ nbytesAcc \in [Range(dataReceiverIfnames) -> 0..MaxAcc]
    /\ totalRecv = nbytesAcc

SpecForged == InitForged /\ [][NextWire \/ NetForged]_vars

\* The feedback path on one interface with the sink: the channel monitor
\* stores its records in the same table and the position changes.
InitSink ==
    /\ InitWithLoad(<<"lo">>, {TRUE}, {FirstClock},
                    [cycles |-> SinkCycles, recv |-> MaxRecv])
    /\ nbytesAcc \in [Range(dataReceiverIfnames) -> 0..MaxAcc]
    /\ totalRecv = nbytesAcc

SpecSink == InitSink /\ [][NextWire \/ ChannelCreate \/ GpsdWrite]_vars

\* The feedback path when a sendto() of the FeedbackSender may fail.
SpecSendFail == InitForged /\ [][NextWire \/ FSBuildFail]_vars

\* A whole process from main(): dreceiver (DataReceiver and FeedbackSender)
\* or dsender (DataSender under either policy and FeedbackReceiver, with no
\* feedback traffic), with the termination signal handled up to MaxSignals
\* times.
ProcessIfnames(proc) ==
    IF proc[1] = "DataSender" THEN {<<"lo">>} \cup IfnameLists ELSE {<<"lo">>}

InitMain(proc, names) ==
    /\ InitData(names, {TRUE}, {FirstClock})
    /\ Constructed(names)
    /\ array = proc
    /\ sockfd = NoSockets(names)
    /\ wpc = [n \in Range(names) |-> "check"]
    /\ nbytesAcc = [n \in Range(names) |-> 0]
    /\ totalRecv = [n \in Range(names) |-> 0]
    /\ wakefd_ = [o \in Objects |-> 0]
    /\ fdTable = [f \in Fds |-> FreeFd]
    /\ mainpc = "start"
    /\ runpc = [o \in Objects |-> "idle"]
    /\ cpc = [o \in Objects |-> "idle"]
    /\ sigInstalled = FALSE
    /\ workload = [cycles |-> ProcCycles, recv |-> ProcRecv]
    /\ fpc = "start"

InitProcess ==
    \E proc \in Processes : \E names \in ProcessIfnames(proc) :
        /\ InitMain(proc, names)
        /\ decisionLevel \in (IF proc[1] = "DataSender" THEN {0, 1} ELSE {0})
        /\ ConfigRead(names, proc, decisionLevel)

\* The configuration files of the model: the complete file with one entry
\* removed or given another text, and the interface lists of the two data
\* sections or of the two feedback sections drawn from IfaceLists or
\* removed.
IfaceLists ==
    { << [iname |-> "lo", iaddr |-> "127.0.0.1"] >>,
      << [iname |-> "lo", iaddr |-> "127.0.0.1"],
         [iname |-> "802.11ac", iaddr |-> "10.0.0.1"] >>,
      << [iname |-> "lo", iaddr |-> ""],
         [iname |-> "802.11ac", iaddr |-> "10.0.0.2"] >>,
      << [iname |-> "lo", iaddr |-> "10.0.0.256"] >>,
      << [iname |-> "802.11ac", iaddr |-> "10.0.1"],
         [iname |-> "802.11ac", iaddr |-> "10.0.0.1"],
         [iname |-> "lo", iaddr |-> "10.0.0.256"] >> }

Files ==
    LET base == FileOf(<<"lo">>, 1)
        Without(fn, key) == [k \in DOMAIN fn \ {key} |-> fn[k]]
        Contents ==
            {base.content}
            \cup { Without(base.content, key) : key \in DOMAIN base.content }
            \cup { [base.content EXCEPT ![key[1]] = key[2]] :
                      key \in (DOMAIN base.content) \X (DOMAIN Chars) }
        Pick(srv, cli) ==
            { [k \in (DOMAIN base.ifaces \ {srv, cli}) \cup S |->
                 IF k = srv THEN l[1] ELSE IF k = cli THEN l[2] ELSE base.ifaces[k]]
              : S \in SUBSET {srv, cli}, l \in IfaceLists \X IfaceLists }
        IfaceSections ==
            Pick("data-receiver", "data-sender")
            \cup Pick("feedback-receiver", "feedback-sender")
    IN  [content : Contents, ifaces : IfaceSections]

\* main() of either process before it reads its configuration file.
InitConfig ==
    /\ \E proc \in Processes : InitMain(proc, <<"lo">>)
    /\ decisionLevel = 0
    /\ cfile \in Files
    /\ loaded = << >>

SpecConfig == InitConfig /\ [][ReadConfig]_vars

Main == MainStart \/ MainReturn

Run(o) == RunEventfd(o) \/ RunLaunch(o) \/ RunJoin(o)

DataReceiverThread == DRSpawn \/ DRClose

ReceiverWorker(i) == Worker(i) \/ WorkerExit(i)

FeedbackSenderThread == FeedbackSender \/ FSExit \/ FSClose

FeedbackReceiverThread == FRTest \/ FRSelect \/ FRClose

DataSenderThread ==
    \/ DSSpawn
    \/ DSJoinClose
    \/ DSPick
    \/ DSOne
    \/ DSOneExit
    \/ DSClose

SenderWorker(i) == SenderSend(i) \/ SenderExit(i)

NextProcess ==
    \/ Main
    \/ \E o \in Range(array) : Run(o) \/ CommSockets(o)
    \/ SigHandler
    \/ DataReceiverThread
    \/ \E i \in Ifaces : ReceiverWorker(i)
    \/ FeedbackSenderThread
    \/ FeedbackReceiverThread
    \/ DataSenderThread
    \/ \E i \in DOMAIN spc : SenderWorker(i)
    \/ ReplayPick
    \/ Tick

SpecProcess == InitProcess /\ [][NextProcess]_vars

\* The start of a process, up to the end of the socket loops, where a call
\* of a socket loop may fail.
SpecSetup ==
    /\ InitProcess
    /\ [][\/ MainStart
          \/ \E o \in Range(array) : RunEventfd(o) \/ RunLaunch(o)
          \/ \E o \in Range(array) : CommSockets(o)
          \/ \E o \in Range(array) : CommSocketsFail(o)]_vars

\* The same process when the termination signal may also be delivered to a
\* thread that is blocked in select().
SpecSignal ==
    /\ InitProcess
    /\ [][\/ NextProcess
          \/ \E t \in {"FeedbackReceiver"} \cup Ifaces : SignalInSelect(t)
          \/ \E t \in {"FeedbackReceiver"} \cup Ifaces : SelectEintr(t)]_vars

\* Every interface name a configuration of the model uses.
AllNames == {"lo", "802.11ac"}

\* The FeedbackSender thread leaves the position where it builds and sends
\* its report (the step FSBuild, which is enabled whenever fpc = "build").
FSBuilt == fpc = "build" /\ fpc' = "sleep"

\* The same process under fair scheduling: every thread that can take a
\* step eventually takes one. Signals, the passing of time and the second
\* run are not obliged to happen.
SpecProcessFair ==
    /\ SpecProcess
    /\ WF_vars(Main)
    /\ \A o \in Objects : WF_vars(Run(o) \/ CommSockets(o))
    /\ WF_vars(DataReceiverThread)
    /\ \A i \in AllNames : WF_vars(i \in DOMAIN wpc /\ ReceiverWorker(i))
    /\ WF_vars(FSStart \/ FSStamp \/ FSSnap \/ FSWrite \/ FSSleep \/ FSExit \/ FSClose)
    /\ WF_fpc(FSBuilt)
    /\ WF_vars(FeedbackReceiverThread)
    /\ WF_vars(DataSenderThread)
    /\ \A i \in AllNames : WF_vars(i \in DOMAIN spc /\ SenderWorker(i))

(* ====================================================================== *)
(* Properties of the byte-counter handoff (SpecCounters)                   *)
(* ====================================================================== *)

\* C1: accumulatedBytes always equals (sum of the received datagram sizes)
\* minus (sum of the amounts the worker subtracted); as the counter is
\* unsigned, the equality also says that no subtraction took it below zero.
C1_CounterAccounting ==
    \A i \in Ifaces : nbytesAcc[i] = totalRecv[i] - totalSub[i]

\* C2: PendingDrain[name] <= accumulatedBytes of that interface in every
\* state in which the worker is not in the middle of applying a drain (the
\* worker's drain taken as one step, as the claim takes it).
C2_PendingAtMostAccumulated ==
    \A i \in Ifaces : wpc[i] # "zero" => nbytes_reset_value[i] <= nbytesAcc[i]

\* C3: no byte is reported twice: the snapshots reported over all cycles
\* never add up to more than the bytes received on the interface.
C3_NoDoubleReport ==
    \A i \in Ifaces : totalReported[i] <= totalRecv[i]

\* C4: whenever the FeedbackSender is at the snapshot of an interface, the
\* drain it published for it in the previous cycle has been applied and
\* reset: nbytes_reset_value[name] = 0.
C4_DrainAppliedBeforeSnapshot ==
    fpc = "snap" => nbytes_reset_value[MapOrder(Ifaces)[fcur]] = 0

\* C5: immediately after the worker has applied a drain, accumulatedBytes
\* is exactly the number of bytes received since the snapshot that the
\* drain was written from.
C5_NothingLostByDrain ==
    \A i \in Ifaces : wpc[i] = "zero" => nbytesAcc[i] = totalRecv[i] - wregRecv[i]

\* C6: a FeedbackSender access to an interface's counter or pending drain
\* never happens while that interface's worker is inside its
\* check-subtract-zero sequence.
C6_AccessesDoNotOverlap ==
    [][ (fpc \in {"snap", "write"} /\ (fpc' # fpc \/ fcur' # fcur))
            => wpc[MapOrder(Ifaces)[fcur]] \notin {"sub", "zero"} ]_vars

(* ====================================================================== *)
(* Properties of the feedback report (SpecWire)                            *)
(* ====================================================================== *)
NumIfnames == Len(dataReceiverIfnames)

\* The records a decoder owes for report k: one per slot with a non-zero
\* timestamp, block by block, slot t first.
RECURSIVE ExpectedFrom(_, _)
ExpectedFrom(k, p) ==
    IF p = 3 * NumIfnames THEN << >>
    ELSE LET name == dataReceiverIfnames[(p \div 3) + 1]
             sm   == reports[k].samples[name][(p % 3) + 1]
         IN  (IF sm.timestamp # 0
              THEN << [rat |-> name, timestamp |-> sm.timestamp,
                       throughput |-> sm.throughput] >>
              ELSE << >>) \o ExpectedFrom(k, p + 1)

Triples(records) ==
    [r \in 1..Len(records) |-> [rat        |-> records[r].rat,
                                timestamp  |-> records[r].timestamp,
                                throughput |-> records[r].throughput]]

\* C7: decoding a report yields, for every slot with a non-zero timestamp,
\* exactly one record with the encoded (timestamp, throughput) pair and the
\* interface name of the block, and no record for a slot with timestamp zero.
C7_RoundTrip ==
    batch.report # 0 => Triples(batch.records) = ExpectedFrom(batch.report, 0)

\* A second report, with its t-2 slots empty, decoded on a host of the other
\* byte order.
C7_Witness ==
    /\ batch.report = 2
    /\ Len(batch.records) = 2 * NumIfnames
    /\ txLittleEndian # rxLittleEndian
    /\ \E r \in 1..Len(batch.records) : batch.records[r].throughput > 0

\* The 12 bytes of slot j (0 = t, 1 = t-1, 2 = t-2) of block i of report k.
SlotBytes(k, i, j) == Slice(reports[k].buffer, 4 + 40 * i + 4 + 12 * j, 12)

\* The row of the sample taken in cycle k for the i-th configured interface.
SampleRow(k, i) ==
    LET sm == reports[k].samples[dataReceiverIfnames[i + 1]][1]
    IN  [rat        |-> dataSenderIfnames[i + 1],
         timestamp  |-> sm.timestamp,
         throughput |-> sm.throughput,
         numBits    |-> ToUint32(sm.throughput * feedbackInterval)]

C9_ReportLayout ==
    \A k \in 1..Len(reports) :
        LET b == reports[k].buffer
        IN  /\ Len(b) = 4 + 40 * NumIfnames
            /\ Slice(b, 0, 4) = BEBytes(NumIfnames, 4)
            /\ \A i \in 0..NumIfnames - 1 :
                  LET off == 4 + 40 * i
                      sms == reports[k].samples[dataReceiverIfnames[i + 1]]
                  IN  /\ MemValue(txLittleEndian, Slice(b, off, 4)) = i
                      /\ Slice(b, off + 4, 8) = BEBytes(sms[1].timestamp, 8)
                      /\ Slice(b, off + 12, 4) = BEBytes(sms[1].throughput, 4)
                      /\ Slice(b, off + 16, 8) = BEBytes(sms[2].timestamp, 8)
                      /\ Slice(b, off + 24, 4) = BEBytes(sms[2].throughput, 4)
                      /\ Slice(b, off + 28, 8) = BEBytes(sms[3].timestamp, 8)
                      /\ Slice(b, off + 36, 4) = BEBytes(sms[3].throughput, 4)

\* A third report whose second block carries non-zero throughput in all
\* three slots.
C9_Witness ==
    /\ Len(reports) = 3
    /\ NumIfnames = 2
    /\ \A j \in 1..3 : reports[3].samples[dataReceiverIfnames[2]][j].throughput > 0

\* C10: in every cycle the encoded throughput of every interface is
\* floor(snapshot * 8 / feedbackInterval).
C10_ThroughputPerInterval ==
    \A k \in 1..Len(reports) : \A n \in Range(dataReceiverIfnames) :
        reports[k].samples[n][1].throughput
            = (reports[k].nbytes[n] * 8) \div feedbackInterval

\* The timestamp carried by slot j of block i of report k.
SlotTimestamp(k, i, j) == BEValue(Slice(reports[k].buffer, 4 + 40 * i + 4 + 12 * j, 8))

OpenSocketFds == { f \in Fds : fdTable[f].kind = "socket" }

\* The handler has called stopThread() on array[0] and on array[1].
StopRequested == signals >= 1

\* The process ended the graceful way: both run() calls returned, no socket
\* is left open and main returned 0.
Graceful ==
    /\ exitCode = <<0>>
    /\ \A o \in Range(array) : runpc[o] = "returned"
    /\ OpenSocketFds = {}

\* C12: once the signal handler has called stopThread() on both role
\* objects, under fair scheduling both run() calls eventually return, every
\* socket is closed and main returns 0.
C12_ShutdownTerminates == StopRequested ~> Graceful

\* The close() calls object o made on descriptor fd.
CloseCalls(o, fd) == { k \in 1..Len(closes) : closes[k].by = o /\ closes[k].fd = fd }

\* The interface names object o was configured with.
Configured(o) == IfaceTable(o, dataSenderIfnames)

\* C13: when run() of a role object has returned, every socket the object
\* opened was closed by it exactly once: not zero times and not twice.
C13_ClosedExactlyOnce ==
    \A o \in Range(array) :
        runpc[o] = "returned" =>
            \A n \in Configured(o) :
                sockfd[o][n] # UNINITIALIZED_FD =>
                    Cardinality(CloseCalls(o, sockfd[o][n])) = 1

\* C14: closeIfaceSocks is idempotent. Once an object has called it, none
\* of the sockets the object opened is left open; a later call by the same
\* object makes no close() call, so no entry of an interface table is ever
\* closed twice; and no close() is made on a handle that was never opened.
C14_CloseIdempotent ==
    /\ \A o \in Objects :
          (\E k \in 1..Len(closes) : closes[k].by = o) =>
              \A f \in Fds : ~(fdTable[f].kind = "socket" /\ fdTable[f].owner = o)
    /\ \A j, k \in 1..Len(closes) :
          (j < k /\ closes[j].by = closes[k].by) => closes[j].name # closes[k].name
    /\ \A k \in 1..Len(closes) : closes[k].fd # UNINITIALIZED_FD

\* C15: after the handler has run twice (stopThread() called twice on each
\* role object) the flags are what one call leaves, and when the process
\* then ends with main returning 0, no object has closed a descriptor more
\* than once.
C15_StopTwice ==
    signals = 2 =>
        /\ \A o \in Range(array) :
              endProgram_[o] /\ (o \in DataObjects => stopFlag[o])
        /\ exitCode = <<0>> =>
              \A k \in 1..Len(closes) :
                  Cardinality(CloseCalls(closes[k].by, closes[k].fd)) <= 1

\* What the claim says a stopThread() call leaves alone: the socket
\* handles and interface tables, the descriptors, the close() calls made,
\* accumulatedBytes and PendingDrain.
HandlerFrame == <<sockfd, fdTable, closes, nbytesAcc, nbytes_reset_value>>

\* C16: a step of the signal handler (one stopThread() call) changes no
\* socket handle, no interface table, no descriptor, no accumulatedBytes and
\* no PendingDrain; it closes nothing.
C16_HandlerFrame == [][SigHandler => UNCHANGED HandlerFrame]_vars

\* The handler has run once and has made the first call of its second run,
\* the FeedbackSender has left its loop, the sockets are open and both
\* counters of an interface are non-zero.
C16_Witness ==
    /\ signals = 1
    /\ hpc = 1
    /\ fpc = "done"
    /\ OpenSocketFds # {}
    /\ \E i \in Ifaces : nbytesAcc[i] > 0 /\ nbytes_reset_value[i] > 0

\* The step is a close() by the DataReceiver: the log grew by its entries.
ReceiverCloses ==
    /\ Len(closes') > Len(closes)
    /\ closes'[Len(closes')].by = "DataReceiver"

\* C17: the handler's stopThread() call on the DataReceiver sets
\* endProgram_ and stopFlag and adds 1 to the eventfd behind wakefd_ (when
\* run() has created it), and the DataReceiver closes an interface socket
\* only when every one of its workers has ended.
C17_ReceiverStop ==
    [][ /\ (SigHandler /\ array[hpc + 1] = "DataReceiver") =>
              /\ endProgram_'["DataReceiver"]
              /\ stopFlag'["DataReceiver"]
              /\ wakefd_["DataReceiver"] \in Fds =>
                     eventCount'[wakefd_["DataReceiver"]] =
                        eventCount[wakefd_["DataReceiver"]] + 1
        /\ ReceiverCloses => \A i \in Ifaces : wpc[i] = "done"
      ]_vars

\* The DataReceiver was stopped, its workers have ended and it has closed
\* its socket.
C17_Witness ==
    /\ endProgram_["DataReceiver"]
    /\ stopFlag["DataReceiver"]
    /\ wakefd_["DataReceiver"] \in Fds
    /\ eventCount[wakefd_["DataReceiver"]] > 0
    /\ \A i \in Ifaces : wpc[i] = "done"
    /\ \E k \in 1..Len(closes) :
          closes[k].by = "DataReceiver" /\ closes[k].hit.kind = "socket"

\* C18: under the single-interface policy an iteration of the send loop
\* that finds more than 333 ms of wall-clock time passed since the previous
\* pick makes a new pick, and the sendto() of every iteration is on the
\* socket of the interface chosen by the latest pick (the entry `iinfo'
\* refers to holds the descriptor of ifaceMap[decision]).
C18_RepickEveryPeriod ==
    [][ /\ (DSOne /\ now - pickedAt > DecisionPeriod) => Len(picks') = Len(picks) + 1
        /\ (DSOne /\ exitCode' = exitCode) =>
              /\ decision' \in Range(dataSenderIfnames)
              /\ sockfd'["DataSender"][iinfo] = sockfd'["DataSender"][decision']
      ]_vars

\* C19: two runs of the Sender on the same interface table make the same
\* picks, one after the other.
C19_SamePicks ==
    \A k \in 1..Len(replay) : k <= Len(picks) => replay[k] = picks[k]

\* C20: under the broadcast policy there is one worker per interface of the
\* table, every sendto() of a worker is on the socket of its own interface
\* whatever results the earlier ones had, and a worker has ended only if the
\* stop flag is set.
C20_Broadcast ==
    decisionLevel = 0 =>
        /\ DOMAIN spc = Range(dataSenderIfnames)
        /\ cpc["DataSender"] \in {"join", "close", "done"} =>
              \A i \in DOMAIN spc : spc[i] # "idle"
        /\ \A s \in sends :
              /\ s.by \in DOMAIN spc
              /\ s.name = s.by
              /\ s.fd = sockfd["DataSender"][s.by]
              /\ s.fd # UNINITIALIZED_FD
        /\ \A i \in DOMAIN spc : spc[i] = "done" => stopFlag["DataSender"]

\* Two workers, each of which had a send fail with an error and with
\* EAGAIN and went on sending; one has ended after the stop flag was set,
\* the other is still in its loop.
C20_Witness ==
    /\ decisionLevel = 0
    /\ Cardinality(DOMAIN spc) = 2
    /\ \A i \in DOMAIN spc : \A ret \in {"sent", "EAGAIN", "error"} :
          \E s \in sends : s.by = i /\ s.ret = ret
    /\ \E i, j \in DOMAIN spc : spc[i] = "done" /\ spc[j] = "send"

(* ====================================================================== *)
(* Properties of socket setup (SpecSetup)                                  *)
(* ====================================================================== *)

\* The sockets object o opened and saved in its table that are still open.
OpenSaved(o) ==
    { n \in DOMAIN sockfd[o] :
        /\ sockfd[o][n] \in Fds
        /\ fdTable[sockfd[o][n]] = [kind |-> "socket", owner |-> o] }

\* C21: when the process has ended in the fatal exit of a socket loop, no
\* socket that the failing commThread opened for an earlier interface is
\* still open: each was closed before the exit.
C21_SetupFailureCloses ==
    exitCode = <<1>> =>
        \A o \in Range(array) : cpc[o] = "sockets" => OpenSaved(o) = {}

(* ====================================================================== *)
(* Properties of the configuration readers (SpecConfig)                    *)
(* ====================================================================== *)

\* The two sections whose port and interface list a role reads into portSrv,
\* portCli and its interface table: the server's first.
OwnSections(o) ==
    IF o \in DataObjects THEN <<"data-receiver", "data-sender">>
    ELSE <<"feedback-receiver", "feedback-sender">>

PortDefault ==
    ("data-receiver" :> PORT_SRV_DEF) @@ ("data-sender" :> PORT_CLI_DEF) @@
    ("feedback-receiver" :> PORT_FEED_SRV_DEF) @@
    ("feedback-sender" :> PORT_FEED_CLI_DEF)

\* The text is an integer in decimal notation: an optional minus sign and
\* digits, nothing else.
IsInteger(text) ==
    LET t == Chars[text]
        digits == IF t # << >> /\ t[1] = "-" THEN Tail(t) ELSE t
    IN  /\ digits # << >>
        /\ \A k \in 1..Len(digits) : digits[k] \in DOMAIN DigitOf

\* The number a text of up to five digits denotes.
RECURSIVE Decimal(_)
Decimal(digits) ==
    IF digits = << >> THEN 0
    ELSE Decimal(SubSeq(digits, 1, Len(digits) - 1)) * 10
            + DigitOf[digits[Len(digits)]]

\* The port readPort owes for an integer text: the integer when it lies in
\* PortMin..PortMax, the default of the section otherwise.
OwedPort(section, text) ==
    LET t == Chars[text]
    IN  IF t[1] # "-" /\ Len(t) <= 5 /\ Decimal(t) >= PortMin /\ Decimal(t) <= PortMax
        THEN Decimal(t)
        ELSE PortDefault[section]

\* C22: for every integer written as the port of a section, readPort ends
\* without an exception leaving it (the process is not terminated) and
\* returns that integer when it lies in 1024..49151 and the default of the
\* section otherwise.
C22_PortRange ==
    \A o \in DOMAIN loaded : \A k \in 1..2 :
        LET section == OwnSections(o)[k]
            key     == <<section, "port">>
        IN  (key \in DOMAIN cfile.content /\ IsInteger(cfile.content[key])) =>
                /\ loaded[o].at # key
                /\ key \in loaded[o].done =>
                      loaded[o].port[section] = OwedPort(section, cfile.content[key])

\* The entries with a numeric value that role o reads.
NumericKeys(o) ==
    { <<OwnSections(o)[1], "port">>, <<OwnSections(o)[2], "port">> }
    \cup (IF o = "FeedbackSender" THEN {}
          ELSE IF o = "DataSender" THEN {<<"data-sender", "log-level">>}
          ELSE IF o = "DataReceiver" THEN {<<"data-receiver", "log-level">>}
          ELSE {<<"feedback-receiver", "log-level">>})
    \cup (IF o = "DataSender" THEN {<<"data-sender", "decision-level">>} ELSE {})
    \cup (IF o = "FeedbackSender" THEN {<<"feedback-sender", "feedback-interval">>}
          ELSE IF o = "FeedbackReceiver"
          THEN {<<"feedback-receiver", "feedback-interval">>}
          ELSE {})

\* The text has no number at its start.
NonNumeric(text) ==
    LET t == Chars[text]
    IN  t = << >> \/ t[1] \notin DOMAIN DigitOf \cup {"-", "+", " "}

\* The member of the object an entry is read into.
Member(s, key) ==
    IF key[2] = "port" THEN s.port[key[1]]
    ELSE IF key[2] = "log-level" THEN s.logLevel
    ELSE IF key[2] = "feedback-interval" THEN s.feedbackInterval
    ELSE s.decisionLevel

\* The documented default of an entry (decision-level has none other than
\* the value the member starts with).
DefaultOf(key) ==
    IF key[2] = "port" THEN PortDefault[key[1]]
    ELSE IF key[2] = "log-level" THEN LOG_LEVEL_DEF
    ELSE IF key[2] = "feedback-interval" THEN FEEDBACK_INTERVAL_DEF
    ELSE 0

\* C23: when a recognized entry is missing from the file, or its value is
\* not a number where a number is expected, the reader of the entry does not
\* terminate the process: no exception leaves it, and the member holds the
\* default.
C23_FallBackToDefault ==
    \A o \in DOMAIN loaded :
        /\ \A key \in NumericKeys(o) :
              (key \notin DOMAIN cfile.content \/ NonNumeric(cfile.content[key])) =>
                  /\ loaded[o].at # key
                  /\ key \in loaded[o].done => Member(loaded[o], key) = DefaultOf(key)
        /\ <<"gpsinfo", "shm-path">> \notin DOMAIN cfile.content =>
              loaded[o].at # <<"gpsinfo", "shm-path">>
        /\ \A section \in {"data-receiver", "data-sender", "feedback-receiver",
                           "feedback-sender"} :
              (section \notin DOMAIN cfile.ifaces /\ loaded[o].at = <<section, "ifaces">>)
                  => loaded[o].ex = "exit"

\* The names that have a valid address in the list of the section.
ValidAddress(a) == a \in {"127.0.0.1", "10.0.0.1", "10.0.0.2"}

NamedValid(section) ==
    IF section \notin DOMAIN cfile.ifaces THEN {}
    ELSE { cfile.ifaces[section][k].iname : k \in
             { j \in 1..Len(cfile.ifaces[section]) :
                 ValidAddress(cfile.ifaces[section][j].iaddr) } }

BothValid(o) == NamedValid(OwnSections(o)[1]) \cap NamedValid(OwnSections(o)[2])

\* C24: when readConfig of a role has returned, the interface table of the
\* role holds exactly the names that have a valid address in the server list
\* and a valid address in the client list of its sections; and when no name
\* has both, readConfig does not return: the process has ended.
C24_InterfaceTable ==
    \A o \in DOMAIN loaded :
        /\ loaded[o].ex = "none" => DOMAIN loaded[o].ifaceMap = BothValid(o)
        /\ BothValid(o) = {} => (loaded[o].ex # "none" /\ ~Running)

\* A role whose lists both name "lo" and "802.11ac", "lo" with an address in
\* the server list only: readConfig returned with "802.11ac" alone.
C24_Witness ==
    \E o \in DOMAIN loaded :
        /\ loaded[o].ex = "none"
        /\ DOMAIN loaded[o].ifaceMap = {"802.11ac"}
        /\ "lo" \in NamedValid(OwnSections(o)[1])
        /\ "lo" \notin NamedValid(OwnSections(o)[2])
        /\ \E k \in 1..Len(cfile.ifaces[OwnSections(o)[2]]) :
              cfile.ifaces[OwnSections(o)[2]][k].iname = "lo"

(* ====================================================================== *)
(* Properties of the report decoder on foreign input (SpecForged)          *)
(* ====================================================================== *)

\* The count a datagram carries in its first four bytes.
CountOf(dgram) == BEValue(Slice(dgram, 0, 4))

\* The datagram is malformed for this receiver: it counts more interfaces
\* than the receiver has names, or more blocks than it carries.
Malformed(dgram) ==
    \/ CountOf(dgram) > Len(dataSenderIfnames)
    \/ 4 + 40 * CountOf(dgram) > Len(dgram)

\* C25: an iteration of the receive loop that finds one malformed datagram
\* on the socket drops it: the decoder gives no record, nothing is handed to
\* the sink, and the FeedbackReceiver goes on running.
C25_MalformedDropped ==
    [][ (FRReceive /\ Len(net) = 1 /\ Malformed(Datagram(net[1]))) =>
            /\ Drained(net).ex = "none"
            /\ Drained(net).val = << >>
            /\ handed' = handed
            /\ exitCode' = exitCode
      ]_vars

\* C29: every datagram that is on the feedback socket when the receive loop
\* wakes up is decoded as one whole report, and its records (one per slot
\* with a non-zero timestamp) are handed to the sink.
C29_EveryDatagramDecoded ==
    [][ FRReceive =>
            \A k \in Range(net) :
                /\ k \in decoded'
                /\ \A r \in Range(ExpectedFrom(k, 0)) :
                      \E h \in handed' : h.rat = r.rat /\ h.timestamp = r.timestamp
                                         /\ h.throughput = r.throughput
      ]_vars

(* ====================================================================== *)
(* Properties of the FeedbackSender cycle                                  *)
(* ====================================================================== *)

\* The throughput report k carries in slot t of its i-th block (i from 0).
SentThroughput(k, i) == BEValue(Slice(reports[k].buffer, 4 + 40 * i + 12, 4))

\* C26: in every cycle and for every tracked interface, the value written
\* into nbytes_reset_value is the value of the snapshot map, the snapshot
\* map does not change between that write and the building of the report,
\* and the throughput the report carries is computed from the same entry.
C26_DrainIsReportedSnapshot ==
    [][ /\ FSWrite =>
              LET name == MapOrder(DOMAIN nbytes_reset_value)[fcur]
              IN  nbytes_reset_value'[name] = nbytesMap[name]
        /\ fpc \in {"write", "build"} => nbytesMap' = nbytesMap
        /\ FSBuild =>
              \A i \in 0..Len(dataReceiverIfnames) - 1 :
                  LET k == Len(reports')
                  IN  /\ reports'[k].nbytes = nbytesMap
                      /\ BEValue(Slice(reports'[k].buffer, 4 + 40 * i + 12, 4))
                            = Throughput(nbytesMap[dataReceiverIfnames[i + 1]],
                                         sleepingInterval)
      ]_vars

\* A report was sent with a non-zero throughput computed from a snapshot
\* after which more bytes arrived; the drain of that snapshot is pending.
C26_Witness ==
    /\ fpc = "sleep"
    /\ Len(reports) >= 1
    /\ \E i \in Ifaces :
          /\ reports[Len(reports)].nbytes[i] > 0
          /\ SentThroughput(Len(reports), 0) > 0
          /\ nbytes_reset_value[i] = reports[Len(reports)].nbytes[i]
          /\ totalRecv[i] > snapRecv[i]

\* C27: the timestamp of every cycle is a multiple of feedbackInterval and
\* greater than the timestamp of the cycle before.
C27_TimestampsAligned ==
    \A k \in 1..Len(reports) :
        /\ reports[k].timestamp % feedbackInterval = 0
        /\ k > 1 => reports[k].timestamp > reports[k - 1].timestamp

\* Three cycles, the clock read after the interval boundary in the last.
C27_Witness ==
    /\ Len(reports) = 3
    /\ reports[3].timestamp > reports[2].timestamp
    /\ reports[2].timestamp > reports[1].timestamp
    /\ now > reports[3].timestamp
    /\ fpc = "sleep"

\* The keys of the snapshot map of a cycle: the interface table of the
\* DataReceiver (FeedbackSender.cc:165-168).
SnapshotKeys == DOMAIN loaded["DataReceiver"].ifaceMap

\* The names the FeedbackSender looks up in it (FeedbackSender.cc:204-208).
LookedUp == Range(loaded["FeedbackSender"].ifnames)

\* C28: once both roles of the dreceiver process are configured, the
\* snapshot map of a cycle has an entry for every name of the
\* FeedbackSender's interface-name list.
C28_LookupNeverMisses ==
    ({"DataReceiver", "FeedbackSender"} \subseteq DOMAIN loaded
        /\ loaded["FeedbackSender"].ex = "none")
            => LookedUp \subseteq SnapshotKeys

\* C30: a sendto() of the FeedbackSender that fails does not end it: the
\* process goes on and the FeedbackSender goes to the sleep that precedes
\* its next cycle.
C30_SendFailureTolerated ==
    [][ FSBuildFail => (exitCode' = << >> /\ fpc' = "sleep") ]_vars

(* ====================================================================== *)
(* Properties of the shutdown paths (SpecSignal)                           *)
(* ====================================================================== *)

\* C31: a graceful stop never goes through a fatal exit: once a termination
\* signal has been delivered (its handler has started or finished), the
\* process does not end with exit code 1, also when the signal interrupted
\* a thread that was waiting in select().
C31_GracefulStopNotFatal ==
    (signals > 0 \/ hpc > 0) => exitCode # <<1>>

\* C32: every point where a thread can be suspended also watches the wake
\* signal: a FeedbackSender thread that is suspended (at either of its
\* sleeps) when shutdown has been requested resumes on the wake signal, so
\* no waiting time passes before it resumes; it does not wait for the sleep
\* to expire.
C32_WokenByWakeSignal ==
    [][(/\ endProgram_["FeedbackSender"]
        /\ fpc \in {"start", "sleep"}
        /\ fpc' # fpc) => now' = now]_vars

(* ====================================================================== *)
(* Properties of the Sender's choice of interface (SpecProcess)            *)
(* ====================================================================== *)

\* C36: pickRandomIface always returns the name of an interface of the
\* interface table: whenever a pick was made, the index drawn for the table
\* is strictly less than the number of its entries, and every pick made is
\* a key of the table.
C36_PickInTable ==
    Len(picks) > 0 =>
        /\ Draw(Len(dataSenderIfnames)) < Len(dataSenderIfnames)
        /\ \A k \in 1..Len(picks) : picks[k] \in Range(dataSenderIfnames)

(* ====================================================================== *)
(* Properties of the sink (SpecSink)                                       *)
(* ====================================================================== *)

\* C33: persisting the same throughput sample several times is idempotent:
\* the table holds at most one row for each (timestamp, rat), and the
\* throughput and bit count of a row are those of every delivery of its
\* sample that was handed to the sink, the first one included, however often
\* the sample came again in slot t-1 or t-2 of a later report.
C33_UpsertIdempotent ==
    /\ \A j, k \in DOMAIN history :
          (history[j].timestamp = history[k].timestamp
             /\ history[j].rat = history[k].rat) => j = k
    /\ \A k \in DOMAIN history : \A h \in handed :
          (/\ history[k].rat = h.rat
           /\ history[k].timestamp.sec = h.timestamp \div 1000
           /\ history[k].timestamp.usec = (h.timestamp % 1000) * 1000)
          => /\ history[k].throughput = h.throughput
             /\ history[k].num_bits = h.numBits

\* Both reports were decoded: the sample of the first cycle was delivered
\* in slot t of the first report and again in slot t-1 of the second.
C33_Witness ==
    /\ decoded = {1, 2}
    /\ Len(reports) = 2
    /\ \E k \in DOMAIN history :
          /\ history[k].timestamp.usec = (reports[1].timestamp % 1000) * 1000
          /\ history[k].timestamp.sec = reports[1].timestamp \div 1000

\* C34: the two update paths of the sink do not overwrite each other's
\* columns: a channel record (no throughput, no bit count, channel
\* information present) leaves throughput, bit count and position of every
\* row that was in the table unchanged, and the records of the
\* FeedbackReceiver, those with throughput 0 included, leave channel
\* information, scan information, tx-bitrate and signal strength of every
\* row that was in the table unchanged.
C34_PathsDisjoint ==
    [][/\ ChannelCreate =>
            \A k \in DOMAIN history :
                /\ history'[k].throughput = history[k].throughput
                /\ history'[k].num_bits = history[k].num_bits
                /\ history'[k].location_id = history[k].location_id
       /\ FRReceive =>
            \A k \in DOMAIN history :
                /\ history'[k].channel_info = history[k].channel_info
                /\ history'[k].scan_info = history[k].scan_info
                /\ history'[k].tx_bitrate = history[k].tx_bitrate
                /\ history'[k].signal_strength = history[k].signal_strength
      ]_vars

\* A row was written by both paths: it holds the channel information of the
\* channel monitor and, from a record with throughput 0 that came after it,
\* the position the FeedbackReceiver read.
C34_Witness ==
    \E k \in DOMAIN history :
        /\ history[k].channel_info = "wifi"
        /\ history[k].throughput = 0
        /\ history[k].location_id = <<1, 1>>

(* ====================================================================== *)
(* Properties of the interface index on the wire (SpecWire)                *)
(* ====================================================================== *)

\* C35: the interfaceIndex field is the RAT identifier of the wire format:
\* in every decoded report the value written in block i is the index the
\* interface got when the configuration was loaded (its position in the
\* list of names), and every record decoded from block i is attributed to
\* the interface that the value the FeedbackReceiver reads from the block's
\* interfaceIndex field (FeedbackReceiver.cc:155-157) identifies.
C35_IndexIdentifiesRat ==
    \A k \in decoded : \A i \in 0..Len(dataReceiverIfnames) - 1 :
        LET buffer  == reports[k].buffer
            written == MemValue(txLittleEndian, Slice(buffer, 4 + i * 40, 4))
            ifaceId == ntohl(rxLittleEndian,
                             MemValue(rxLittleEndian, Slice(buffer, 4 + i * 40, 4)))
        IN  /\ written = i
            /\ \A r \in Range(ReadEntries(buffer, i, 0)) :
                  /\ ifaceId < Len(dataSenderIfnames)
                  /\ r.rat = dataSenderIfnames[ifaceId + 1]

(* ====================================================================== *)
(* Properties of the arithmetic of the feedback cycle (SpecCounters)       *)
(* ====================================================================== *)

\* C37: the 32-bit arithmetic of the feedback cycle is exact: every snapshot
\* equals the 64-bit counter it was taken from, the product snapshot * 8 is
\* not reduced modulo 2^32, so that the throughput of the report is
\* floor(counter * 8 / divisor), and the drain takes the full snapshot from
\* the counter without wrapping it.
C37_ArithmeticExact ==
    [][ /\ FSSnap =>
              LET name == MapOrder(Ifaces)[fcur]
              IN  nbytesMap'[name] = nbytesAcc[name]
        /\ FSBuild =>
              \A i \in 0..Len(dataReceiverIfnames) - 1 :
                  BEValue(Slice(reports'[Len(reports')].buffer, 4 + 40 * i + 12, 4))
                     = (nbytesMap[dataReceiverIfnames[i + 1]] * 8) \div sleepingInterval
        /\ \A i \in Ifaces :
              WorkerSub(i) => nbytesAcc'[i] = nbytesAcc[i] - (totalSub'[i] - totalSub[i])
      ]_vars

(* ====================================================================== *)
(* Properties of the feedback period (SpecConfig)                          *)
(* ====================================================================== *)

\* C38: the feedback period is always positive: whatever feedback-interval
\* the configuration file supplies, once the FeedbackSender has read its
\* configuration the interval it keeps is at least 1, and the sleeping
\* interval feedbackInterval - (t % feedbackInterval) lies in
\* 1..feedbackInterval for every clock reading t, so that neither the
\* modulo nor the division of the throughput has a zero divisor.
C38_PeriodPositive ==
    ("FeedbackSender" \in DOMAIN loaded /\ loaded["FeedbackSender"].ex = "none") =>
        LET interval == loaded["FeedbackSender"].feedbackInterval
        IN  /\ interval > 0
            /\ \A t \in 0..MaxClock :
                  interval - (t % interval) \in 1..interval

(* ====================================================================== *)
(* Properties of the per-interface state (SpecIsolation)                   *)
(* ====================================================================== *)

\* C39: per-interface isolation: a step of the Receiver worker of an
\* interface leaves the counter and the pending drain of every other
\* interface unchanged, and no step of the FeedbackSender changes a
\* counter (it writes pending drains only).
C39_PerInterfaceIsolation ==
    [][ /\ \A i \in Ifaces :
              Worker(i) =>
                  \A j \in Ifaces \ {i} :
                      /\ nbytesAcc'[j] = nbytesAcc[j]
                      /\ nbytes_reset_value'[j] = nbytes_reset_value[j]
        /\ FeedbackSender => nbytesAcc' = nbytesAcc
      ]_vars

\* The worker of one interface has applied a drain while the drain of the
\* other interface is still pending and its counter holds received bytes.
C39_Witness ==
    \E i, j \in Ifaces :
        /\ i # j
        /\ totalSub[i] > 0
        /\ wpc[i] = "recv"
        /\ nbytes_reset_value[j] > 0
        /\ nbytesAcc[j] > 0

====
